---------------------------- MODULE Spec2Model ----------------------------
(***************************************************************************)
(* A model of my-redis: the frame codec and Connection (frame.rs,          *)
(* connection.rs), the store with its expiration sweeper and pub/sub       *)
(* registry (db.rs), and the command handlers, in particular the SUBSCRIBE *)
(* loop (cmd/*.rs, server.rs Handler::run).                                *)
(*                                                                         *)
(* Bytes are their ASCII codes.  A u64 is three limbs <<h, m, l>> in base  *)
(* 10^7 (value h*10^14 + m*10^7 + l), so that the whole u64 range exists   *)
(* in the model and decimal formatting and parsing are computed.           *)
(***************************************************************************)
EXTENDS Integers, Sequences, FiniteSets, TLC

(***************************************************************************)
(* Bounds of the model.                                                    *)
(***************************************************************************)
\* longest Simple / Error / Bulk payload of the frames the codec is fed
MaxText == 2
\* longest Array (of the generated frames)
MaxArrLen == 2
\* the clock stops at MaxTime; no deadline is set beyond it
MaxTime == 2
\* longest expiry of a set, in ticks
MaxTTL == 2
\* number of set calls (the ids 0 .. MaxSets - 1)
MaxSets == 2
\* number of Db handles held outside the sweeper at one time
MaxHandles == 2
\* number of times read_frame returns (a frame, or the end of the stream),
\* over all connections
MaxCmds == 4
\* capacity of a broadcast channel: broadcast::channel(1024) in db.rs,
\* scaled down so that a receiver can fall behind within MaxCmds publishes
ChannelCapacity == 2
\* arguments of a command frame, after its name
MaxArgs == 4
\* number of times read_frame returns, over all connections, under the server
MaxServerCmds == 2
\* the permits of the admission Semaphore (256 in server.rs, fewer here than
\* the connections that ask)
MAX_CONNECTIONS == 2
\* number of requests the client of the byte-level connection writes
MaxScript == 2
\* the bytes one read_buf delivers when it does not deliver all in flight
ReadChunk == 8
\* longest byte sequence a peer that does not speak the protocol sends
MaxRaw == 5

(***************************************************************************)
(* Bytes of the wire grammar.                                              *)
(***************************************************************************)
BytePlus == 43
ByteMinus == 45
ByteColon == 58
ByteDollar == 36
ByteStar == 42
ByteCR == 13
ByteLF == 10
ByteZero == 48
ByteNine == 57

CRLF == <<ByteCR, ByteLF>>

Min(S) == CHOOSE x \in S : \A y \in S : x <= y

\* Option<T>: None is the empty sequence, Some(x) the sequence of x alone
None == <<>>
Some(x) == <<x>>

\* all sequences over S of length 0..n
SeqsUpTo(S, n) == UNION {[1..k -> S] : k \in 0..n}

(***************************************************************************)
(* u64 arithmetic on limbs.                                                *)
(***************************************************************************)
LimbBase == 10 ^ 7

U64Max == <<184467, 4407370, 9551615>>

U64FromNat(n) == <<0, n \div LimbBase, n % LimbBase>>

U64Zero == U64FromNat(0)

\* a <= b on limbs
U64Leq(a, b) ==
    \/ a[1] < b[1]
    \/ a[1] = b[1] /\ a[2] < b[2]
    \/ a[1] = b[1] /\ a[2] = b[2] /\ a[3] <= b[3]

\* v * 10 + d on limbs, not reduced to 64 bits: the caller checks the range
U64MulAdd(v, d) ==
    LET l == v[3] * 10 + d
        m == v[2] * 10 + (l \div LimbBase)
        h == v[1] * 10 + (m \div LimbBase)
    IN  <<h, m % LimbBase, l % LimbBase>>

\* a u64 as a usize the model can index with: every length beyond the first
\* limb is larger than any buffer of the model, and stands as LimbBase
U64ToLen(v) == IF v[1] = 0 /\ v[2] = 0 THEN v[3] ELSE LimbBase

RECURSIVE NatDigits(_)
\* the decimal digits of n, most significant first, as ASCII bytes
NatDigits(n) ==
    IF n < 10 THEN <<ByteZero + n>>
    ELSE Append(NatDigits(n \div 10), ByteZero + (n % 10))

RECURSIVE PadDigits(_, _)
\* n as exactly w decimal digits
PadDigits(n, w) ==
    IF w = 0 THEN <<>>
    ELSE Append(PadDigits(n \div 10, w - 1), ByteZero + (n % 10))

\* what write!(buf, "{}", val) produces for a u64
U64ToString(v) ==
    IF v[1] > 0 THEN NatDigits(v[1]) \o PadDigits(v[2], 7) \o PadDigits(v[3], 7)
    ELSE IF v[2] > 0 THEN NatDigits(v[2]) \o PadDigits(v[3], 7)
    ELSE NatDigits(v[3])

IsDigit(b) == b >= ByteZero /\ b <= ByteNine

RECURSIVE AtoiFrom(_, _, _)
\* atoi's loop: accumulate the leading digits of line from index i on;
\* "none" on overflow of u64
AtoiFrom(line, i, acc) ==
    IF i > Len(line) \/ ~IsDigit(line[i]) THEN [some |-> TRUE, v |-> acc]
    ELSE LET nxt == U64MulAdd(acc, line[i] - ByteZero)
         IN  IF U64Leq(nxt, U64Max) THEN AtoiFrom(line, i + 1, nxt)
             ELSE [some |-> FALSE, v |-> U64Zero]

\* atoi::<u64>(line): the number its leading digits spell; none when there
\* is no leading digit or the number overflows
Atoi(line) ==
    IF Len(line) = 0 \/ ~IsDigit(line[1]) THEN [some |-> FALSE, v |-> U64Zero]
    ELSE AtoiFrom(line, 1, U64Zero)

(***************************************************************************)
(* Frames.  One record shape for all variants: t the variant, s the text   *)
(* or bytes of Simple / Error / Bulk, v the u64 of Integer, a the elements *)
(* of Array.                                                               *)
(***************************************************************************)
Simple(s) == [t |-> "Simple", s |-> s, v |-> U64Zero, a |-> <<>>]
Error(s) == [t |-> "Error", s |-> s, v |-> U64Zero, a |-> <<>>]
Integer(v) == [t |-> "Integer", s |-> <<>>, v |-> v, a |-> <<>>]
Bulk(b) == [t |-> "Bulk", s |-> b, v |-> U64Zero, a |-> <<>>]
Null == [t |-> "Null", s |-> <<>>, v |-> U64Zero, a |-> <<>>]
Array(a) == [t |-> "Array", s |-> <<>>, v |-> U64Zero, a |-> a]


\* String::from_utf8 on the bytes of the model: ASCII bytes are valid, the
\* byte 0xFF never is
Utf8Valid(s) == \A i \in 1..Len(s) : s[i] < 128

(***************************************************************************)
(* Connection::write_frame.  st is the write half of a Connection: wbuf    *)
(* the bytes held by the BufWriter, wire the bytes flushed to the socket,  *)
(* ok whether every write so far returned Ok.                              *)
(***************************************************************************)
\* the [0u8; 12] scratch buffer of write_decimal
WriteDecimalBuf == 12

PutBytes(st, bytes) ==
    IF st.ok THEN [st EXCEPT !.wbuf = @ \o bytes] ELSE st

\* write!(&mut buf, "{}", val)? into the 12 byte cursor fails with WriteZero
\* when the digits do not fit; nothing of the number reaches the stream then
WriteDecimal(st, val) ==
    IF ~st.ok THEN st
    ELSE LET digits == U64ToString(val)
         IN  IF Len(digits) > WriteDecimalBuf THEN [st EXCEPT !.ok = FALSE]
             ELSE PutBytes(st, digits \o CRLF)

WriteValue(st, frame) ==
    CASE frame.t = "Simple" -> PutBytes(st, <<BytePlus>> \o frame.s \o CRLF)
      [] frame.t = "Error" -> PutBytes(st, <<ByteMinus>> \o frame.s \o CRLF)
      [] frame.t = "Integer" -> WriteDecimal(PutBytes(st, <<ByteColon>>), frame.v)
      [] frame.t = "Bulk" ->
            PutBytes(WriteDecimal(PutBytes(st, <<ByteDollar>>),
                                  U64FromNat(Len(frame.s))),
                     frame.s \o CRLF)
      [] frame.t = "Null" -> PutBytes(st, <<ByteDollar, ByteMinus, ByteZero + 1>> \o CRLF)

\* self.stream.flush(): skipped (by `?`) once a write failed
Flush(st) ==
    IF st.ok THEN [st EXCEPT !.wire = @ \o st.wbuf, !.wbuf = <<>>] ELSE st

RECURSIVE WriteFrame(_, _)
RECURSIVE WriteEntries(_, _, _)
\* the entries of an Array, each through write_frame (which flushes)
WriteEntries(st, a, i) ==
    IF i > Len(a) \/ ~st.ok THEN st
    ELSE WriteEntries(WriteFrame(st, a[i]), a, i + 1)

WriteFrame(st, frame) ==
    IF ~st.ok THEN st
    ELSE Flush(IF frame.t = "Array"
               THEN WriteEntries(WriteDecimal(PutBytes(st, <<ByteStar>>),
                                              U64FromNat(Len(frame.a))),
                                 frame.a, 1)
               ELSE WriteValue(st, frame))

NewWriter == [wbuf |-> <<>>, wire |-> <<>>, ok |-> TRUE]

(***************************************************************************)
(* The cursor helpers of frame.rs.  A cursor is the buffer and pos, the    *)
(* number of bytes before the cursor; byte i of the buffer (from 0) is     *)
(* buf[i + 1].  Results carry r: "Ok", "Incomplete" or "Error".            *)
(***************************************************************************)
\* a skip that does not look at what remains
SkipUnchecked(buf, pos, n) == [r |-> "Ok", pos |-> pos + n]

\* skip(src, n)
Skip(buf, pos, n) ==
    IF Len(buf) - pos < n THEN [r |-> "Incomplete", pos |-> pos]
    ELSE [r |-> "Ok", pos |-> pos + n]

\* get_line: the first CRLF at or after the cursor, looked for in
\* start .. len - 1 (exclusive)
GetLine(buf, pos) ==
    LET hits == {i \in pos..(Len(buf) - 2) :
                    buf[i + 1] = ByteCR /\ buf[i + 2] = ByteLF}
    IN  IF hits = {} THEN [r |-> "Incomplete", pos |-> pos, line |-> <<>>]
        ELSE [r |-> "Ok", pos |-> Min(hits) + 2,
              line |-> SubSeq(buf, pos + 1, Min(hits))]

\* get_decimal
GetDecimal(buf, pos) ==
    LET g == GetLine(buf, pos)
        n == Atoi(g.line)
    IN  IF g.r # "Ok" THEN [r |-> g.r, pos |-> pos, v |-> U64Zero]
        ELSE IF ~n.some THEN [r |-> "Error", pos |-> g.pos, v |-> U64Zero]
        ELSE [r |-> "Ok", pos |-> g.pos, v |-> n.v]

RECURSIVE Check(_, _)
RECURSIVE CheckEntries(_, _, _)
\* for _ in 0..len { Frame::check(src)? }
CheckEntries(buf, pos, n) ==
    IF n = 0 THEN [r |-> "Ok", pos |-> pos]
    ELSE LET c == Check(buf, pos)
         IN  IF c.r # "Ok" THEN c ELSE CheckEntries(buf, c.pos, n - 1)

\* Frame::check
Check(buf, pos) ==
    IF pos >= Len(buf) THEN [r |-> "Incomplete", pos |-> pos]
    ELSE LET b == buf[pos + 1]
             p == pos + 1
         IN  CASE b = BytePlus \/ b = ByteMinus ->
                    LET g == GetLine(buf, p) IN [r |-> g.r, pos |-> g.pos]
               [] b = ByteColon ->
                    LET d == GetDecimal(buf, p) IN [r |-> d.r, pos |-> d.pos]
               [] b = ByteDollar ->
                    IF p >= Len(buf) THEN [r |-> "Incomplete", pos |-> p]
                    ELSE IF buf[p + 1] = ByteMinus THEN Skip(buf, p, 4)
                    ELSE LET d == GetDecimal(buf, p)
                         IN  IF d.r # "Ok" THEN [r |-> d.r, pos |-> d.pos]
                             ELSE Skip(buf, d.pos, U64ToLen(d.v) + 2)
               [] b = ByteStar ->
                    LET d == GetDecimal(buf, p)
                    IN  IF d.r # "Ok" THEN [r |-> d.r, pos |-> d.pos]
                        ELSE CheckEntries(buf, d.pos, U64ToLen(d.v))
               [] OTHER -> [r |-> "Error", pos |-> p]

RECURSIVE Parse(_, _)
RECURSIVE ParseEntries(_, _, _, _)
\* for _ in 0..len { out.push(Frame::parse(src)?) }
ParseEntries(buf, pos, n, out) ==
    IF n = 0 THEN [r |-> "Ok", pos |-> pos, f |-> Array(out)]
    ELSE LET e == Parse(buf, pos)
         IN  IF e.r # "Ok" THEN e
             ELSE ParseEntries(buf, e.pos, n - 1, Append(out, e.f))

\* Frame::parse; r = "Panic" is its unimplemented!() arm
Parse(buf, pos) ==
    IF pos >= Len(buf) THEN [r |-> "Incomplete", pos |-> pos, f |-> Null]
    ELSE LET b == buf[pos + 1]
             p == pos + 1
         IN  CASE b = BytePlus \/ b = ByteMinus ->
                    LET g == GetLine(buf, p)
                    IN  IF g.r # "Ok" THEN [r |-> g.r, pos |-> g.pos, f |-> Null]
                        ELSE IF ~Utf8Valid(g.line)
                        THEN [r |-> "Error", pos |-> g.pos, f |-> Null]
                        ELSE [r |-> "Ok", pos |-> g.pos,
                              f |-> IF b = BytePlus THEN Simple(g.line)
                                    ELSE Error(g.line)]
               [] b = ByteColon ->
                    LET d == GetDecimal(buf, p)
                    IN  [r |-> d.r, pos |-> d.pos,
                         f |-> IF d.r = "Ok" THEN Integer(d.v) ELSE Null]
               [] b = ByteDollar ->
                    IF p >= Len(buf) THEN [r |-> "Incomplete", pos |-> p, f |-> Null]
                    ELSE IF buf[p + 1] = ByteMinus
                    THEN LET g == GetLine(buf, p)
                         IN  IF g.r # "Ok" THEN [r |-> g.r, pos |-> g.pos, f |-> Null]
                             ELSE IF g.line # <<ByteMinus, ByteZero + 1>>
                             THEN [r |-> "Error", pos |-> g.pos, f |-> Null]
                             ELSE [r |-> "Ok", pos |-> g.pos, f |-> Null]
                    ELSE LET d == GetDecimal(buf, p)
                             len == U64ToLen(d.v)
                         IN  IF d.r # "Ok" THEN [r |-> d.r, pos |-> d.pos, f |-> Null]
                             ELSE IF Len(buf) - d.pos < len + 2
                             THEN [r |-> "Incomplete", pos |-> d.pos, f |-> Null]
                             ELSE [r |-> "Ok", pos |-> d.pos + len + 2,
                                   f |-> Bulk(SubSeq(buf, d.pos + 1, d.pos + len))]
               [] b = ByteStar ->
                    LET d == GetDecimal(buf, p)
                    IN  IF d.r # "Ok" THEN [r |-> d.r, pos |-> d.pos, f |-> Null]
                        ELSE ParseEntries(buf, d.pos, U64ToLen(d.v), <<>>)
               [] OTHER -> [r |-> "Panic", pos |-> p, f |-> Null]

(***************************************************************************)
(* Connection::parse_frame on the accumulation buffer: r = "Some" with the *)
(* frame and the buffer advanced past it, "None" (more bytes needed, the   *)
(* buffer as it was), or "Err".                                            *)
(***************************************************************************)
\* a parse_frame that empties the buffer (clear) where the code advances it
ParseFrameClear(buffer) ==
    LET c == Check(buffer, 0)
        p == Parse(buffer, 0)
    IN  IF c.r = "Ok"
        THEN IF p.r = "Ok"
             THEN [r |-> "Some", f |-> p.f, buffer |-> <<>>]
             ELSE [r |-> "Err", f |-> Null, buffer |-> buffer]
        ELSE IF c.r = "Incomplete"
        THEN [r |-> "None", f |-> Null, buffer |-> buffer]
        ELSE [r |-> "Err", f |-> Null, buffer |-> buffer]

ParseFrame(buffer) ==
    LET c == Check(buffer, 0)
        p == Parse(buffer, 0)
    IN  IF c.r = "Ok"
        THEN IF p.r = "Ok"
             THEN [r |-> "Some", f |-> p.f,
                   buffer |-> SubSeq(buffer, c.pos + 1, Len(buffer))]
             ELSE [r |-> "Err", f |-> Null, buffer |-> buffer]
        ELSE IF c.r = "Incomplete"
        THEN [r |-> "None", f |-> Null, buffer |-> buffer]
        ELSE [r |-> "Err", f |-> Null, buffer |-> buffer]

(***************************************************************************)
(* The frames the codec is fed.                                            *)
(***************************************************************************)
\* the text "a"
TextA == <<97>>

TextBytes == {97, ByteCR, ByteLF}

Texts == SeqsUpTo(TextBytes, MaxText)

\* 0, 12, 999999999999 (12 digits), 10^12 (13 digits), u64::MAX (20 digits)
IntValues ==
    {U64FromNat(0), U64FromNat(12), <<0, 99999, 9999999>>, <<0, 100000, 0>>,
     U64Max}

LeafFrames ==
    {Simple(s) : s \in Texts} \cup {Error(s) : s \in Texts}
        \cup {Bulk(s) : s \in Texts} \cup {Integer(v) : v \in IntValues}
        \cup {Null}

\* one frame of each leaf variant
SomeLeaves ==
    {Simple(TextA), Error(TextA), Integer(U64FromNat(12)),
     Integer(<<0, 100000, 0>>), Bulk(TextA \o <<ByteCR>>), Null}

FlatArrays == {Array(a) : a \in SeqsUpTo(SomeLeaves, MaxArrLen)}

InnerArrays ==
    {Array(a) : a \in SeqsUpTo({Null, Bulk(TextA)}, 1)}

NestedArrays ==
    {Array(a) :
        a \in SeqsUpTo({Null, Bulk(TextA)} \cup InnerArrays, MaxArrLen)}
        \cup {Array(<<Array(<<Array(<<Integer(U64FromNat(12))>>)>>)>>)}

CodecFrames == LeafFrames \cup FlatArrays \cup NestedArrays

(***************************************************************************)
(* Strings.  A String is the sequence of its (ASCII) bytes.                *)
(***************************************************************************)
StrGet == <<103, 101, 116>>
StrSet == <<115, 101, 116>>
StrPub == <<112, 117, 98>>
StrPublish == <<112, 117, 98, 108, 105, 115, 104>>
StrSubscribe == <<115, 117, 98, 115, 99, 114, 105, 98, 101>>
StrUnsubscribe == <<117, 110>> \o StrSubscribe
StrMessage == <<109, 101, 115, 115, 97, 103, 101>>
StrEX == <<69, 88>>
StrPX == <<80, 88>>
StrOK == <<79, 75>>
\* "ERR unknown command '" and the closing "'"
StrErrUnknown ==
    <<69, 82, 82, 32, 117, 110, 107, 110, 111, 119, 110, 32,
      99, 111, 109, 109, 97, 110, 100, 32, 39>>
StrQuote == <<39>>

\* a name taken as it is written
KeepCase(s) == s

\* str::to_lowercase on ASCII
ToLowercase(s) ==
    [i \in 1..Len(s) |-> IF s[i] >= 65 /\ s[i] <= 90 THEN s[i] + 32 ELSE s[i]]

(***************************************************************************)
(* Parse (parse.rs): the cursor is the sequence of the parts not yet taken.*)
(* Results carry r: "Ok", "EndOfStream" or "Error", and rest, the cursor   *)
(* after the call.                                                         *)
(***************************************************************************)
\* Parse::next_string
NextString(parts) ==
    IF parts = <<>> THEN [r |-> "EndOfStream", s |-> <<>>, rest |-> parts]
    ELSE LET f == Head(parts)
         IN  IF f.t = "Simple" \/ (f.t = "Bulk" /\ Utf8Valid(f.s))
             THEN [r |-> "Ok", s |-> f.s, rest |-> Tail(parts)]
             ELSE [r |-> "Error", s |-> <<>>, rest |-> Tail(parts)]

\* Parse::next_bytes
NextBytes(parts) ==
    IF parts = <<>> THEN [r |-> "EndOfStream", s |-> <<>>, rest |-> parts]
    ELSE LET f == Head(parts)
         IN  IF f.t \in {"Simple", "Bulk"}
             THEN [r |-> "Ok", s |-> f.s, rest |-> Tail(parts)]
             ELSE [r |-> "Error", s |-> <<>>, rest |-> Tail(parts)]

\* Parse::next_int
NextInt(parts) ==
    IF parts = <<>> THEN [r |-> "EndOfStream", v |-> U64Zero, rest |-> parts]
    ELSE LET f == Head(parts)
         IN  IF f.t = "Integer"
             THEN [r |-> "Ok", v |-> f.v, rest |-> Tail(parts)]
             ELSE IF f.t \in {"Simple", "Bulk"} /\ Atoi(f.s).some
             THEN [r |-> "Ok", v |-> Atoi(f.s).v, rest |-> Tail(parts)]
             ELSE [r |-> "Error", v |-> U64Zero, rest |-> Tail(parts)]

RECURSIVE NextStrings(_, _)
\* loop { match parse.next_string() { Ok(s) => push, EndOfStream => break,
\* Err(e) => return Err(e) } } of Subscribe / Unsubscribe::parse_frames
NextStrings(parts, acc) ==
    LET n == NextString(parts)
    IN  CASE n.r = "Ok" -> NextStrings(n.rest, Append(acc, n.s))
          [] n.r = "EndOfStream" -> [r |-> "Ok", list |-> acc, rest |-> n.rest]
          [] OTHER -> [r |-> "Error", list |-> acc, rest |-> n.rest]

(***************************************************************************)
(* Commands (cmd/*.rs).  One record shape: c the variant; key the key of   *)
(* Get / Set, the channel of Publish, the name of Unknown; value the value *)
(* of Set, the message of Publish; expire the Option<Duration> of Set, in  *)
(* milliseconds (a u64); channels those of Subscribe / Unsubscribe.        *)
(***************************************************************************)
Command(c, key, value, expire, channels) ==
    [c |-> c, key |-> key, value |-> value, expire |-> expire,
     channels |-> channels]

CmdErr == [r |-> "Err", cmd |-> Command("Unknown", <<>>, <<>>, None, <<>>),
           rest |-> <<>>]
CmdOk(cmd, rest) == [r |-> "Ok", cmd |-> cmd, rest |-> rest]

\* Get::parse_frames
GetParseFrames(parts) ==
    LET k == NextString(parts)
    IN  IF k.r # "Ok" THEN CmdErr
        ELSE CmdOk(Command("Get", k.s, <<>>, None, <<>>), k.rest)

\* Publish::parse_frames
PublishParseFrames(parts) ==
    LET ch == NextString(parts)
        msg == NextBytes(ch.rest)
    IN  IF ch.r # "Ok" \/ msg.r # "Ok" THEN CmdErr
        ELSE CmdOk(Command("Publish", ch.s, msg.s, None, <<>>), msg.rest)

\* a Duration that pays no regard to the unit
SecsAsMillis(v) == v

\* Duration::from_secs(secs) in milliseconds
SecsToMillis(v) == U64MulAdd(U64MulAdd(U64MulAdd(v, 0), 0), 0)

\* Set::parse_frames
SetParseFrames(parts) ==
    LET k == NextString(parts)
        v == NextBytes(k.rest)
        opt == NextString(v.rest)
        n == NextInt(opt.rest)
    IN  IF k.r # "Ok" \/ v.r # "Ok" THEN CmdErr
        ELSE CASE opt.r = "Ok" /\ opt.s = StrEX ->
                    IF n.r # "Ok" THEN CmdErr
                    ELSE CmdOk(Command("Set", k.s, v.s, Some(SecsToMillis(n.v)),
                                       <<>>), n.rest)
               [] opt.r = "Ok" /\ opt.s = StrPX ->
                    IF n.r # "Ok" THEN CmdErr
                    ELSE CmdOk(Command("Set", k.s, v.s, Some(n.v), <<>>), n.rest)
               [] opt.r = "EndOfStream" ->
                    CmdOk(Command("Set", k.s, v.s, None, <<>>), opt.rest)
               [] OTHER -> CmdErr

\* Subscribe::parse_frames: at least one channel
SubscribeParseFrames(parts) ==
    LET first == NextString(parts)
        more == NextStrings(first.rest, <<first.s>>)
    IN  IF first.r # "Ok" \/ more.r # "Ok" THEN CmdErr
        ELSE CmdOk(Command("Subscribe", <<>>, <<>>, None, more.list), more.rest)

\* Unsubscribe::parse_frames: any number of channels
UnsubscribeParseFrames(parts) ==
    LET all == NextStrings(parts, <<>>)
    IN  IF all.r # "Ok" THEN CmdErr
        ELSE CmdOk(Command("Unsubscribe", <<>>, <<>>, None, all.list), all.rest)

\* Command::from_frame: r is "Ok" with cmd, or "Err"
FromFrame(frame) ==
    IF frame.t # "Array" THEN CmdErr
    ELSE LET name == NextString(frame.a)
             command_name == ToLowercase(name.s)
             parsed ==
                 CASE command_name = StrGet -> GetParseFrames(name.rest)
                   [] command_name = StrPublish -> PublishParseFrames(name.rest)
                   [] command_name = StrSet -> SetParseFrames(name.rest)
                   [] command_name = StrSubscribe -> SubscribeParseFrames(name.rest)
                   [] command_name = StrUnsubscribe ->
                          UnsubscribeParseFrames(name.rest)
                   [] OTHER ->
                          CmdOk(Command("Unknown", command_name, <<>>, None, <<>>),
                                <<>>)
         IN  IF name.r # "Ok" THEN CmdErr
             ELSE IF parsed.r = "Ok" /\ parsed.rest # <<>> THEN CmdErr
             ELSE parsed

\* Command::get_name
GetName(cmd) ==
    CASE cmd.c = "Get" -> StrGet
      [] cmd.c = "Publish" -> StrPub
      [] cmd.c = "Set" -> StrSet
      [] cmd.c = "Subscribe" -> StrSubscribe
      [] cmd.c = "Unsubscribe" -> StrUnsubscribe
      [] cmd.c = "Unknown" -> cmd.key

\* a response that leaves the name out
UnknownResponseBare(command_name) == Error(StrErrUnknown \o StrQuote)

\* the response of Unknown::apply
UnknownResponse(command_name) ==
    Error(StrErrUnknown \o command_name \o StrQuote)

\* make_subscribe_frame, make_unsubscribe_frame, make_message_frame
MakeSubscribeFrame(channel_name, num_subs) ==
    Array(<<Bulk(StrSubscribe), Bulk(channel_name), Integer(U64FromNat(num_subs))>>)

MakeUnsubscribeFrame(channel_name, num_subs) ==
    Array(<<Bulk(StrUnsubscribe), Bulk(channel_name),
            Integer(U64FromNat(num_subs))>>)

MakeMessageFrame(channel_name, msg) ==
    Array(<<Bulk(StrMessage), Bulk(channel_name), Bulk(msg)>>)

(***************************************************************************)
(* The store (db.rs).                                                      *)
(***************************************************************************)
\* the keys "k", "l" and the values "v", "w"
KeyK == <<107>>
KeyL == <<108>>
Keys == {KeyK, KeyL}

ValueV == <<118>>
ValueW == <<119>>
Values == {ValueV, ValueW}

\* Option<Duration> of a set, in ticks
Expires == {None} \cup {Some(d) : d \in 0..MaxTTL}

\* State::next_expiration: the instant of the first index record
NextExpiration(xs) ==
    IF xs = {} THEN None ELSE Some(Min({x.when : x \in xs}))

\* BTreeMap::insert and ::remove on the index
IndexInsert(xs, when, id, key) ==
    {x \in xs : ~(x.when = when /\ x.id = id)}
        \cup {[when |-> when, id |-> id, key |-> key]}

\* an index keyed by the instant alone: every record of that instant goes
IndexRemoveByWhen(xs, when, id) == {x \in xs : x.when # when}

IndexRemove(xs, when, id) == {x \in xs : ~(x.when = when /\ x.id = id)}

\* the first record of the index, in (when, id) order
IndexFirst(xs) ==
    CHOOSE x \in xs :
        \A y \in xs : x.when < y.when \/ (x.when = y.when /\ x.id <= y.id)

\* Db::get
DbGet(es, key) == IF es[key] = None THEN None ELSE Some(es[key][1].data)

\* a set that forgets the index record of the entry it replaces
RemovePrevRecordForgotten(xs, prev) == xs

\* Db::set: the index record of the replaced entry, if it had one, goes
RemovePrevRecord(xs, prev) ==
    IF prev # None /\ prev[1].expires_at # None
    THEN IndexRemove(xs, prev[1].expires_at[1], prev[1].id)
    ELSE xs

\* Db::set under the lock, at instant t.  st is [entries, expirations,
\* next_id]; notify is the flag the call ends on.
DbSet(st, key, value, expire, t) ==
    LET id == st.next_id
        when == IF expire = None THEN None ELSE Some(t + expire[1])
        next == NextExpiration(st.expirations)
        notify == IF expire = None THEN FALSE
                  ELSE IF next = None THEN TRUE ELSE next[1] > when[1]
        xs1 == IF when = None THEN st.expirations
               ELSE IndexInsert(st.expirations, when[1], id, key)
        prev == st.entries[key]
        xs2 == RemovePrevRecord(xs1, prev)
    IN  [entries |-> [st.entries EXCEPT ![key] =
                         Some([id |-> id, data |-> value, expires_at |-> when])],
         expirations |-> xs2,
         next_id |-> id + 1,
         notify |-> notify]

\* self.shared.background_task.notified(), not awaited: the Notified future
\* is made and dropped, which neither stores a permit nor wakes a waiter
NotifiedDropped(permit) == permit

\* a sweeper that keeps the key whose deadline is this very instant
ExpiredOnlyAfter(when, t) == when < t

\* purge_expired_keys: `when > now` ends the loop
Expired(when, t) == ~(when > t)

RECURSIVE PurgeLoop(_, _, _)
\* the while let loop of purge_expired_keys
PurgeLoop(es, xs, t) ==
    IF xs = {} THEN [entries |-> es, expirations |-> xs, when |-> None]
    ELSE LET x == IndexFirst(xs)
         IN  IF ~Expired(x.when, t)
             THEN [entries |-> es, expirations |-> xs, when |-> Some(x.when)]
             ELSE PurgeLoop([es EXCEPT ![x.key] = None],
                            IndexRemove(xs, x.when, x.id), t)

\* Shared::purge_expired_keys at instant t.  st is [entries, expirations,
\* shutdown].
PurgeExpiredKeys(st, t) ==
    IF st.shutdown
    THEN [entries |-> st.entries, expirations |-> st.expirations, when |-> None]
    ELSE PurgeLoop(st.entries, st.expirations, t)

\* Drop for Db: strong is Arc::strong_count(&self.shared)
DbDrop(strong, down, permit) ==
    IF strong = 2
    THEN [shutdown |-> TRUE, background_task |-> NotifiedDropped(permit)]
    ELSE [shutdown |-> down, background_task |-> permit]

(***************************************************************************)
(* Pub/sub (db.rs, tokio::sync::broadcast).  A channel is the Sender's     *)
(* shared state: log, every value sent so far (the ring buffer holds the   *)
(* last ChannelCapacity of them), and rx_cnt, the live Receivers.  A       *)
(* Receiver is the position next of the value it reads next.               *)
(***************************************************************************)
\* the channels "a", "b" and the messages "m", "n"
ChanA == <<97>>
ChanB == <<98>>
Channels == {ChanA, ChanB}
MsgM == <<109>>
MsgN == <<110>>

\* Sender::send: Err (unwrap_or(0)) without a receiver, the value dropped
BroadcastSend(ch, value) ==
    IF ch.rx_cnt = 0 THEN [ch |-> ch, n |-> 0]
    ELSE [ch |-> [ch EXCEPT !.log = Append(@, value)], n |-> ch.rx_cnt]

\* Db::publish
DbPublish(ps, key, value) ==
    IF ps[key] = None THEN [pub_sub |-> ps, n |-> 0]
    ELSE LET r == BroadcastSend(ps[key][1], value)
         IN  [pub_sub |-> [ps EXCEPT ![key] = Some(r.ch)], n |-> r.n]

\* a subscribe that hands out a receiver positioned at the oldest value
DbSubscribeFromStart(ps, key) ==
    IF ps[key] = None
    THEN [pub_sub |-> [ps EXCEPT ![key] = Some([log |-> <<>>, rx_cnt |-> 1])],
          next |-> 0]
    ELSE [pub_sub |-> [ps EXCEPT ![key] = Some([@[1] EXCEPT !.rx_cnt = @ + 1])],
          next |-> 0]

\* Db::subscribe: the receiver starts after the values already sent
DbSubscribe(ps, key) ==
    IF ps[key] = None
    THEN [pub_sub |-> [ps EXCEPT ![key] = Some([log |-> <<>>, rx_cnt |-> 1])],
          next |-> 0]
    ELSE [pub_sub |-> [ps EXCEPT ![key] = Some([@[1] EXCEPT !.rx_cnt = @ + 1])],
          next |-> Len(ps[key][1].log)]

\* a receiver whose drop leaves the count as it was
ReceiverLeak(ps, key) == ps

\* Drop for Receiver
ReceiverDrop(ps, key) ==
    [ps EXCEPT ![key] = Some([@[1] EXCEPT !.rx_cnt = @ - 1])]

RECURSIVE ReceiversDrop(_, _)
\* the drop of a StreamMap: every receiver it holds
ReceiversDrop(ps, subs) ==
    IF subs = <<>> THEN ps
    ELSE ReceiversDrop(ReceiverDrop(ps, Head(subs).key), Tail(subs))

\* Receiver::recv through BroadcastStream::poll_next: r is "Ok" with the value,
\* "Lagged" when the value at next has been overwritten, "Pending"
Recv(ch, next) ==
    LET tail == Len(ch.log)
    IN  IF tail - next > ChannelCapacity
        THEN [r |-> "Lagged", value |-> <<>>, next |-> tail - ChannelCapacity]
        ELSE IF next < tail
        THEN [r |-> "Ok", value |-> ch.log[next + 1], next |-> next + 1]
        ELSE [r |-> "Pending", value |-> <<>>, next |-> next]

(***************************************************************************)
(* StreamMap<String, BroadcastStream<Bytes>>: a Vec of entries [key, next, *)
(* start]; next is the receiver, start the position it was created at      *)
(* (history).                                                              *)
(***************************************************************************)
StreamMapIndex(subs, k) ==
    IF \E i \in 1..Len(subs) : subs[i].key = k
    THEN CHOOSE i \in 1..Len(subs) : subs[i].key = k
    ELSE 0

\* Vec::swap_remove
SwapRemove(v, i) ==
    [j \in 1..(Len(v) - 1) |-> IF j = i THEN v[Len(v)] ELSE v[j]]

\* StreamMap::remove
StreamMapRemove(subs, k) ==
    IF StreamMapIndex(subs, k) = 0 THEN subs
    ELSE SwapRemove(subs, StreamMapIndex(subs, k))

\* an insert that pushes without removing the entry of the same key
StreamMapPush(subs, entry) == Append(subs, entry)

\* StreamMap::insert: remove(&k), then push
StreamMapInsert(subs, entry) == Append(StreamMapRemove(subs, entry.key), entry)

\* a keys() that yields the first key only
StreamMapKeysFirst(subs) == IF subs = <<>> THEN <<>> ELSE <<subs[1].key>>

\* StreamMap::keys
StreamMapKeys(subs) == [i \in 1..Len(subs) |-> subs[i].key]

(***************************************************************************)
(* State.                                                                  *)
(***************************************************************************)
VARIABLES
    \* codec: a peer writes the frames of tosend through write_frame; the
    \* stream carries wr.wire; rd is the reading Connection
    tosend,     \* frames the writing peer has still to write
    sent,       \* frames it has passed to write_frame, in order
    wr,         \* the writing Connection: [wbuf, wire, ok]
    closed,     \* the writing peer has closed the stream
    rd,         \* the reading Connection: [buffer, pc, partial]; partial
                \* records that parse_frame found a partial frame buffered
    got,        \* the frames read_frame has returned, in order
    \* store: the State behind the Mutex of Shared, and its tasks
    entries,    \* key -> Option<Entry>, Entry = [id, data, expires_at]
    expirations, \* the BTreeMap (when, id) -> key, as records [when, id, key]
    next_id,
    shutdown,
    background_task, \* the Notify: whether it holds a permit
    now,        \* the clock (Instant::now()), in ticks
    sweeper,    \* purge_expired_tasks: [pc, when]
    handles,    \* Db handles outside the sweeper: [held, dropped]; dropped
                \* counts those past Drop::drop whose Arc is not yet released
    lastSet,    \* key -> Option<[data, expires_at]> of the latest set (history)
    \* pub/sub and the connections' handlers
    pub_sub,    \* State::pub_sub: channel -> Option<[log, rx_cnt]>
    handlers,   \* connection -> the Handler's task, see HandlerNew
    \* the server: server::run, Listener::run and the Handler structs
    server,     \* see ServerNew
    \* Command::from_frame on its own
    request,    \* the frame passed to Command::from_frame
    command     \* Option of what it returned

codecVars == <<tosend, sent, wr, closed, rd, got>>

storeVars ==
    <<entries, expirations, next_id, shutdown, background_task, now, sweeper,
      handles, lastSet>>

pubsubVars == <<pub_sub, handlers>>

serverVars == <<server>>

parseVars == <<request, command>>

vars == <<codecVars, storeVars, pubsubVars, serverVars, parseVars>>

\* the connections
Conns == {"c1", "c2", "c3"}

\* a Handler about to run: pc is the place of its task (run: Handler::run
\* awaiting a frame; subscribe, insert, select, unsubscribe: inside
\* Subscribe::apply; done, error, panicked: the task has ended); channels is
\* Subscribe::channels, rx the receiver subscribe_to_channel holds before it
\* inserts it, subs the StreamMap, unsub the channels handle_command has
\* still to unsubscribe; out is the frames written to the client and ncmds
\* the number of times read_frame has returned
HandlerNew ==
    [pc |-> "run", channels |-> <<>>, rx |-> None, subs |-> <<>>,
     unsub |-> <<>>, out |-> <<>>, ncmds |-> 0]

\* no connection has sent anything
HandlersNew == handlers = [c \in Conns |-> HandlerNew]

\* no call of Command::from_frame on its own
ParseIdle == request = Null /\ command = None

\* server::run before its select!: run is the place of server::run (select,
\* drain: awaiting shutdown_complete_rx.recv(), returned); listener the
\* place of Listener::run (acquire, accept, sleep: in time::sleep of accept,
\* failed: returned Err, cancelled: dropped by the select!); backoff the
\* local of Listener::accept (1 while accept is not running); permits the Semaphore; trigger whether the
\* caller's shutdown future has completed; notify_shutdown and
\* shutdown_complete_tx whether the Listener's two senders are alive; tasks
\* the Handler of each connection (none: not accepted, spawned, dropping:
\* past Drop::drop with its fields not yet dropped, gone); wfail the
\* connections whose socket fails every write from now on
ServerNew ==
    server = [run |-> "select", listener |-> "acquire", backoff |-> 1,
              permits |-> MAX_CONNECTIONS, trigger |-> FALSE,
              notify_shutdown |-> TRUE, shutdown_complete_tx |-> TRUE,
              tasks |-> [c \in Conns |-> "none"], wfail |-> {}]

\* Arc::strong_count of the Shared: the handles and the sweeper task's clone
StrongCount ==
    handles.held + handles.dropped + (IF sweeper.pc = "done" THEN 0 ELSE 1)

\* Db::new: an empty State, one handle, the sweeper task spawned
StoreNew ==
    /\ entries = [k \in Keys |-> None]
    /\ expirations = {}
    /\ next_id = 0
    /\ shutdown = FALSE
    /\ background_task = FALSE
    /\ now = 0
    /\ sweeper = [pc |-> "check", when |-> None]
    /\ handles = [held |-> 1, dropped |-> 0]
    /\ lastSet = [k \in Keys |-> None]
    /\ pub_sub = [ch \in Channels |-> None]

(***************************************************************************)
(* Codec actions.                                                          *)
(***************************************************************************)
\* the peer calls write_frame on its next frame
CodecWrite ==
    /\ tosend # <<>>
    /\ wr.ok
    /\ ~closed
    /\ wr' = WriteFrame(wr, Head(tosend))
    /\ tosend' = Tail(tosend)
    /\ sent' = Append(sent, Head(tosend))
    /\ UNCHANGED <<closed, rd, got, storeVars, pubsubVars, serverVars, parseVars>>

\* the peer drops its Connection: what the BufWriter still holds is lost
CodecClose ==
    /\ ~closed
    /\ tosend = <<>> \/ ~wr.ok
    /\ closed' = TRUE
    /\ wr' = [wr EXCEPT !.wbuf = <<>>]
    /\ UNCHANGED <<tosend, sent, rd, got, storeVars, pubsubVars, serverVars, parseVars>>

\* read_frame: self.parse_frame()?
ReadFrameParse ==
    /\ rd.pc = "parse"
    /\ LET p == ParseFrame(rd.buffer)
       IN  /\ rd' = [buffer |-> p.buffer,
                     pc |-> CASE p.r = "Some" -> "parse"
                              [] p.r = "None" -> "read"
                              [] OTHER -> "err",
                     partial |-> rd.partial \/ (p.r = "None" /\ rd.buffer # <<>>)]
           /\ got' = IF p.r = "Some" THEN Append(got, p.f) ELSE got
    /\ UNCHANGED <<tosend, sent, wr, closed, storeVars, pubsubVars, serverVars, parseVars>>

\* read_frame: read_buf delivers n > 0 bytes, any part of what is in flight
ReadFrameRead(n) ==
    /\ rd.pc = "read"
    /\ n \in 1..Len(wr.wire)
    /\ rd' = [rd EXCEPT !.buffer = @ \o SubSeq(wr.wire, 1, n), !.pc = "parse"]
    /\ wr' = [wr EXCEPT !.wire = SubSeq(@, n + 1, Len(@))]
    /\ UNCHANGED <<tosend, sent, closed, got, storeVars, pubsubVars, serverVars, parseVars>>

\* a read_frame that takes every end of the stream for a clean one
ReadFrameEofClean ==
    /\ rd.pc = "read"
    /\ closed
    /\ wr.wire = <<>>
    /\ rd' = [rd EXCEPT !.pc = "eof"]
    /\ UNCHANGED <<tosend, sent, wr, closed, got, storeVars, pubsubVars, serverVars, parseVars>>

\* read_frame: read_buf returns 0: clean end of stream on an empty buffer,
\* "connection reset by peer" otherwise
ReadFrameEof ==
    /\ rd.pc = "read"
    /\ closed
    /\ wr.wire = <<>>
    /\ rd' = [rd EXCEPT !.pc = IF rd.buffer = <<>> THEN "eof" ELSE "err"]
    /\ UNCHANGED <<tosend, sent, wr, closed, got, storeVars, pubsubVars, serverVars, parseVars>>

\* the codec with nothing to write
CodecIdle ==
    /\ wr = NewWriter
    /\ closed = FALSE
    /\ sent = <<>>
    /\ rd = [buffer |-> <<>>, pc |-> "parse", partial |-> FALSE]
    /\ got = <<>>

CodecInit ==
    /\ tosend \in {<<f>> : f \in CodecFrames}
    /\ CodecIdle
    /\ StoreNew
    /\ HandlersNew
    /\ ServerNew
    /\ ParseIdle

CodecNext ==
    \/ CodecWrite
    \/ CodecClose
    \/ ReadFrameParse
    \/ \E n \in 1..Len(wr.wire) : ReadFrameRead(n)
    \/ ReadFrameEof

SpecCodec == CodecInit /\ [][CodecNext]_vars

(***************************************************************************)
(* Store actions.                                                          *)
(***************************************************************************)
\* Db::set through a held handle
Set(key, value, expire) ==
    /\ handles.held > 0
    /\ next_id < MaxSets
    /\ expire # None => now + expire[1] <= MaxTime
    /\ LET s == DbSet([entries |-> entries, expirations |-> expirations,
                       next_id |-> next_id], key, value, expire, now)
       IN  /\ entries' = s.entries
           /\ expirations' = s.expirations
           /\ next_id' = s.next_id
           /\ background_task' =
                  IF s.notify THEN NotifiedDropped(background_task)
                  ELSE background_task
           /\ lastSet' = [lastSet EXCEPT ![key] =
                             Some([data |-> value,
                                   expires_at |-> IF expire = None THEN None
                                                  ELSE Some(now + expire[1])])]
    /\ UNCHANGED <<shutdown, now, sweeper, handles, codecVars, pubsubVars, serverVars, parseVars>>

\* Db::clone
CloneDb ==
    /\ handles.held > 0
    /\ handles.held + handles.dropped < MaxHandles
    /\ handles' = [handles EXCEPT !.held = @ + 1]
    /\ UNCHANGED <<entries, expirations, next_id, shutdown, background_task,
                   now, sweeper, lastSet, codecVars, pubsubVars, serverVars, parseVars>>

\* Drop for Db: the body of drop
DropDb ==
    /\ handles.held > 0
    /\ handles' = [held |-> handles.held - 1, dropped |-> handles.dropped + 1]
    /\ LET d == DbDrop(StrongCount, shutdown, background_task)
       IN  /\ shutdown' = d.shutdown
           /\ background_task' = d.background_task
    /\ UNCHANGED <<entries, expirations, next_id, now, sweeper, lastSet,
                   codecVars, pubsubVars, serverVars, parseVars>>

\* ... and the release of its Arc<Shared> field after the body
ReleaseArc ==
    /\ handles.dropped > 0
    /\ handles' = [handles EXCEPT !.dropped = @ - 1]
    /\ UNCHANGED <<entries, expirations, next_id, shutdown, background_task,
                   now, sweeper, lastSet, codecVars, pubsubVars, serverVars, parseVars>>

\* purge_expired_tasks: while !shared.is_shutdown()
SweeperCheck ==
    /\ sweeper.pc = "check"
    /\ sweeper' = [sweeper EXCEPT !.pc = IF shutdown THEN "done" ELSE "purge"]
    /\ UNCHANGED <<entries, expirations, next_id, shutdown, background_task,
                   now, handles, lastSet, codecVars, pubsubVars, serverVars, parseVars>>

\* purge_expired_tasks: shared.purge_expired_keys(), then the wait it chooses
SweeperPurge ==
    /\ sweeper.pc = "purge"
    /\ LET p == PurgeExpiredKeys([entries |-> entries,
                                  expirations |-> expirations,
                                  shutdown |-> shutdown], now)
       IN  /\ entries' = p.entries
           /\ expirations' = p.expirations
           /\ sweeper' = [pc |-> IF p.when = None THEN "wait" ELSE "sleep",
                          when |-> p.when]
    /\ UNCHANGED <<next_id, shutdown, background_task, now, handles, lastSet,
                   codecVars, pubsubVars, serverVars, parseVars>>

\* purge_expired_tasks: the wait ends, by sleep_until(when) (only in the
\* select!) or by a permit of the Notify, which the wake consumes
SweeperWake ==
    /\ sweeper.pc \in {"sleep", "wait"}
    /\ \E by \in {"timer", "notified"} :
          /\ by = "timer" => (sweeper.pc = "sleep" /\ now >= sweeper.when[1])
          /\ by = "notified" => background_task
          /\ background_task' = IF by = "notified" THEN FALSE ELSE background_task
    /\ sweeper' = [pc |-> "check", when |-> None]
    /\ UNCHANGED <<entries, expirations, next_id, shutdown, now, handles,
                   lastSet, codecVars, pubsubVars, serverVars, parseVars>>

SweeperStep == SweeperCheck \/ SweeperPurge \/ SweeperWake

\* time passes
Tick ==
    /\ now < MaxTime
    /\ now' = now + 1
    /\ UNCHANGED <<entries, expirations, next_id, shutdown, background_task,
                   sweeper, handles, lastSet, codecVars, pubsubVars, serverVars, parseVars>>

StoreInit ==
    /\ tosend = <<>>
    /\ CodecIdle
    /\ StoreNew
    /\ HandlersNew
    /\ ServerNew
    /\ ParseIdle

StoreNext ==
    \/ \E key \in Keys, value \in Values, expire \in Expires :
          Set(key, value, expire)
    \/ CloneDb
    \/ DropDb
    \/ ReleaseArc
    \/ SweeperStep
    \/ Tick

SpecStore == StoreInit /\ [][StoreNext]_vars

\* the sweeper task and the clock are scheduled again and again
FairSpecStore ==
    SpecStore /\ WF_vars(SweeperStep) /\ WF_vars(Tick)


(***************************************************************************)
(* Handler actions (Handler::run of server.rs, the apply of cmd/*.rs).     *)
(***************************************************************************)
\* a request: an Array of Bulk strings
CmdFrame(parts) == Array([i \in 1..Len(parts) |-> Bulk(parts[i])])

StrSubscribeUpper == <<83, 85, 66, 83, 67, 82, 73, 66, 69>>
StrPing == <<112, 105, 110, 103>>

RECURSIVE Reads(_)
\* the number of times read_frame has returned on the connections of S
Reads(S) ==
    IF S = {} THEN 0
    ELSE LET c == CHOOSE x \in S : TRUE
         IN  handlers[c].ncmds + Reads(S \ {c})

\* what the client of each connection may send: c1 and c2 subscribe, c2 and
\* c3 publish
ClientFrames(c) ==
    CASE c = "c1" ->
           {CmdFrame(<<StrSubscribe, ChanA>>),
            CmdFrame(<<StrSubscribeUpper, ChanA, ChanB>>),
            CmdFrame(<<StrUnsubscribe>>),
            CmdFrame(<<StrUnsubscribe, ChanB>>),
            CmdFrame(<<StrGet, KeyK>>)}
      [] c = "c2" ->
           {CmdFrame(<<StrSubscribe, ChanA>>),
            CmdFrame(<<StrSet, KeyK, ValueV>>),
            CmdFrame(<<StrPublish, ChanA, MsgM>>),
            CmdFrame(<<StrPing>>),
            Integer(U64Zero)}
      [] OTHER ->
           {CmdFrame(<<StrPublish, ChanA, MsgM>>),
            CmdFrame(<<StrPublish, ChanA, MsgN>>),
            CmdFrame(<<StrPublish, ChanB, MsgM>>)}

\* a task that does not end
HandlerGoesOn(h, pc) == h

\* the task ends at place pc: what Subscribe::apply holds is dropped
HandlerEnd(h, pc) ==
    [h EXCEPT !.pc = pc, !.channels = <<>>, !.rx = None, !.subs = <<>>,
              !.unsub = <<>>]

\* an Option<Duration> in milliseconds as ticks of the clock
DurationTicks(expire) ==
    IF expire = None THEN None ELSE Some(U64ToLen(expire[1]))

\* write_frame on the connection of c returns Err
WriteFails(c) == c \in server.wfail

\* dst.write_frame(&frame).await?: the frame is written, or the task ends
\* with the error
WriteOrFail(h, c, frame) ==
    IF WriteFails(c) THEN HandlerEnd(h, "error")
    ELSE [h EXCEPT !.out = Append(@, frame)]

\* dst.write_frame(&frame).await with the Result dropped (Publish::apply,
\* Unknown::apply): the frame is written, or nothing happens
WriteIgnoringErr(h, c, frame) ==
    IF WriteFails(c) THEN h ELSE [h EXCEPT !.out = Append(@, frame)]

\* Handler::run: a frame arrives, Command::from_frame, Command::apply
HandlerRun(c, frame) ==
    /\ handlers[c].pc = "run"
    /\ Reads(Conns) < MaxCmds
    /\ \E p \in {FromFrame(frame)}, cmd \in {FromFrame(frame).cmd} :
       LET h == [handlers[c] EXCEPT !.ncmds = @ + 1]
           isSet == p.r = "Ok" /\ cmd.c = "Set"
           isPublish == p.r = "Ok" /\ cmd.c = "Publish"
           s == DbSet([entries |-> entries, expirations |-> expirations,
                       next_id |-> next_id], cmd.key, cmd.value,
                      DurationTicks(cmd.expire), now)
           sent_to == DbPublish(pub_sub, cmd.key, cmd.value)
           get == DbGet(entries, cmd.key)
       IN  /\ isSet => next_id < MaxSets
           /\ handlers' = [handlers EXCEPT ![c] =
                  CASE p.r = "Err" -> HandlerEnd(h, "error")
                    [] cmd.c = "Get" ->
                         WriteOrFail(h, c, IF get = None THEN Null
                                           ELSE Bulk(get[1]))
                    [] cmd.c = "Set" -> WriteOrFail(h, c, Simple(StrOK))
                    [] cmd.c = "Publish" ->
                         WriteIgnoringErr(h, c, Integer(U64FromNat(sent_to.n)))
                    [] cmd.c = "Subscribe" ->
                         [h EXCEPT !.pc = "subscribe", !.channels = cmd.channels]
                    [] cmd.c = "Unsubscribe" -> HandlerEnd(h, "error")
                    [] OTHER ->
                         WriteIgnoringErr(h, c, UnknownResponse(cmd.key))]
           /\ entries' = IF isSet THEN s.entries ELSE entries
           /\ expirations' = IF isSet THEN s.expirations ELSE expirations
           /\ next_id' = IF isSet THEN s.next_id ELSE next_id
           /\ background_task' =
                  IF isSet /\ s.notify THEN NotifiedDropped(background_task)
                  ELSE background_task
           /\ lastSet' =
                  IF isSet
                  THEN [lastSet EXCEPT ![cmd.key] =
                           Some([data |-> cmd.value,
                                 expires_at |->
                                     IF cmd.expire = None THEN None
                                     ELSE Some(now + DurationTicks(cmd.expire)[1])])]
                  ELSE lastSet
           /\ pub_sub' = IF isPublish THEN sent_to.pub_sub ELSE pub_sub
    /\ UNCHANGED <<shutdown, now, sweeper, handles, codecVars, serverVars, parseVars>>

\* subscribe_to_channel: db.subscribe(channel_name)
SubscribeToChannel(c) ==
    /\ handlers[c].pc = "subscribe"
    /\ LET h == handlers[c]
           channel_name == Head(h.channels)
           s == DbSubscribe(pub_sub, channel_name)
           tail == IF pub_sub[channel_name] = None THEN 0
                   ELSE Len(pub_sub[channel_name][1].log)
       IN  /\ pub_sub' = s.pub_sub
           /\ handlers' = [handlers EXCEPT ![c] =
                  [h EXCEPT !.pc = "insert", !.channels = Tail(@),
                            !.rx = Some([key |-> channel_name, next |-> s.next,
                                         start |-> tail])]]
    /\ UNCHANGED <<storeVars, codecVars, serverVars, parseVars>>

\* subscribe_to_channel: subscriptions.insert (the stream it replaces is
\* dropped) and the response; then the next channel, or the select!
SubscribeInsert(c) ==
    /\ handlers[c].pc = "insert"
    /\ LET h == handlers[c]
           entry == h.rx[1]
           subs == StreamMapInsert(h.subs, entry)
           replaced == IF StreamMapIndex(h.subs, entry.key) = 0 THEN pub_sub
                       ELSE ReceiverDrop(pub_sub, entry.key)
       IN  /\ pub_sub' = IF WriteFails(c) THEN ReceiversDrop(replaced, subs)
                         ELSE replaced
           /\ handlers' = [handlers EXCEPT ![c] =
                  WriteOrFail([h EXCEPT !.pc = IF h.channels = <<>> THEN "select"
                                               ELSE "subscribe",
                                        !.rx = None,
                                        !.subs = subs],
                              c, MakeSubscribeFrame(entry.key, Len(subs)))]
    /\ UNCHANGED <<storeVars, codecVars, serverVars, parseVars>>

\* the select! of Subscribe::apply, first branch: the stream of entry i has
\* an item; Err(_) => unreachable!() unwinds the task
SelectMessage(c, i) ==
    /\ handlers[c].pc = "select"
    /\ i \in 1..Len(handlers[c].subs)
    /\ LET h == handlers[c]
           e == h.subs[i]
           r == Recv(pub_sub[e.key][1], e.next)
       IN  /\ r.r # "Pending"
           /\ handlers' = [handlers EXCEPT ![c] =
                  IF r.r = "Lagged" THEN HandlerEnd(h, "panicked")
                  ELSE WriteOrFail([h EXCEPT !.subs[i].next = r.next], c,
                                   MakeMessageFrame(e.key, r.value))]
           /\ pub_sub' = IF r.r = "Lagged" \/ WriteFails(c)
                         THEN ReceiversDrop(pub_sub, h.subs)
                         ELSE pub_sub
    /\ UNCHANGED <<storeVars, codecVars, serverVars, parseVars>>

\* a handle_command that ends the connection on a channel it has not joined
HandleUnsubscribeStrict(h) ==
    LET channel_name == Head(h.unsub)
        subs == StreamMapRemove(h.subs, channel_name)
    IN  IF StreamMapIndex(h.subs, channel_name) = 0
        THEN [h EXCEPT !.pc = "error", !.channels = <<>>, !.rx = None,
                       !.unsub = <<>>]
        ELSE [h EXCEPT !.pc = IF Tail(h.unsub) = <<>> THEN "select"
                              ELSE "unsubscribe",
                       !.unsub = Tail(@),
                       !.subs = subs,
                       !.out = Append(@, MakeUnsubscribeFrame(channel_name,
                                                              Len(subs)))]

\* a handle_command that answers an unsubscribe and keeps the stream
HandleUnsubscribeKeeps(h) ==
    LET channel_name == Head(h.unsub)
        subs == StreamMapRemove(h.subs, channel_name)
    IN  [h EXCEPT !.pc = IF Tail(h.unsub) = <<>> THEN "select" ELSE "unsubscribe",
                  !.unsub = Tail(@),
                  !.out = Append(@, MakeUnsubscribeFrame(channel_name,
                                                         Len(subs)))]

\* a handle_command that goes back to Handler::run once the last channel is
\* left
HandleUnsubscribeLeaves(h) ==
    LET channel_name == Head(h.unsub)
        subs == StreamMapRemove(h.subs, channel_name)
    IN  [h EXCEPT !.pc = IF Tail(h.unsub) # <<>> THEN "unsubscribe"
                         ELSE IF subs = <<>> THEN "run" ELSE "select",
                  !.unsub = Tail(@),
                  !.subs = subs,
                  !.out = Append(@, MakeUnsubscribeFrame(channel_name,
                                                         Len(subs)))]

\* one turn of `for channel_name in unsubscribe.channels` in handle_command
HandleUnsubscribe(h) ==
    LET channel_name == Head(h.unsub)
        subs == StreamMapRemove(h.subs, channel_name)
    IN  [h EXCEPT !.pc = IF Tail(h.unsub) = <<>> THEN "select" ELSE "unsubscribe",
                  !.unsub = Tail(@),
                  !.subs = subs,
                  !.out = Append(@, MakeUnsubscribeFrame(channel_name,
                                                         Len(subs)))]

\* the select! of Subscribe::apply, second branch: a frame arrives,
\* handle_command up to its first write
SelectFrame(c, frame) ==
    /\ handlers[c].pc = "select"
    /\ Reads(Conns) < MaxCmds
    /\ \E p \in {FromFrame(frame)}, cmd \in {FromFrame(frame).cmd} :
       LET h == [handlers[c] EXCEPT !.ncmds = @ + 1]
           list == IF cmd.channels = <<>> THEN StreamMapKeys(h.subs)
                   ELSE cmd.channels
       IN  /\ handlers' = [handlers EXCEPT ![c] =
                  CASE p.r = "Err" -> HandlerEnd(h, "error")
                    [] cmd.c = "Subscribe" ->
                         [h EXCEPT !.pc = "subscribe",
                                   !.channels = @ \o cmd.channels]
                    [] cmd.c = "Unsubscribe" ->
                         [h EXCEPT !.pc = IF list = <<>> THEN "select"
                                          ELSE "unsubscribe",
                                   !.unsub = list]
                    [] OTHER ->
                         WriteIgnoringErr(h, c, UnknownResponse(GetName(cmd)))]
           /\ pub_sub' = IF p.r = "Err" THEN ReceiversDrop(pub_sub, h.subs)
                         ELSE pub_sub
    /\ UNCHANGED <<storeVars, codecVars, serverVars, parseVars>>

\* handle_command: subscriptions.remove(&channel_name) and the response
UnsubscribeChannel(c) ==
    /\ handlers[c].pc = "unsubscribe"
    /\ LET h == handlers[c]
           channel_name == Head(h.unsub)
       IN  /\ handlers' = [handlers EXCEPT ![c] =
                  IF WriteFails(c) THEN HandlerEnd(h, "error")
                  ELSE HandleUnsubscribe(h)]
           /\ pub_sub' = IF WriteFails(c) THEN ReceiversDrop(pub_sub, h.subs)
                         ELSE IF StreamMapIndex(h.subs, channel_name) = 0
                         THEN pub_sub
                         ELSE ReceiverDrop(pub_sub, channel_name)
    /\ UNCHANGED <<storeVars, codecVars, serverVars, parseVars>>

\* read_frame returns None: the client has closed the connection
HandlerEof(c) ==
    /\ handlers[c].pc \in {"run", "select"}
    /\ Reads(Conns) < MaxCmds
    /\ handlers' = [handlers EXCEPT ![c] =
           HandlerEnd([@ EXCEPT !.ncmds = @ + 1], "done")]
    /\ pub_sub' = ReceiversDrop(pub_sub, handlers[c].subs)
    /\ UNCHANGED <<storeVars, codecVars, serverVars, parseVars>>

PubSubInit ==
    /\ tosend = <<>>
    /\ CodecIdle
    /\ StoreNew
    /\ HandlersNew
    /\ ServerNew
    /\ ParseIdle

PubSubNext ==
    \E c \in Conns :
        \/ \E frame \in ClientFrames(c) : HandlerRun(c, frame)
        \/ SubscribeToChannel(c)
        \/ SubscribeInsert(c)
        \/ \E i \in 1..Len(handlers[c].subs) : SelectMessage(c, i)
        \/ \E frame \in ClientFrames(c) : SelectFrame(c, frame)
        \/ UnsubscribeChannel(c)
        \/ HandlerEof(c)

SpecPubSub == PubSubInit /\ [][PubSubNext]_vars

(***************************************************************************)
(* The server (server.rs): server::run, Listener::run, Listener::accept,   *)
(* the Handler of each connection and its Drop.  Shutdown (shutdown.rs) is *)
(* a flag and a broadcast::Receiver<()>: its recv completes once the       *)
(* Listener's notify_shutdown sender is gone.                              *)
(***************************************************************************)
\* Listener::accept: `if backoff > 64`
BackoffCeiling == 64

\* an acquire that never waits
AcquireAlways(permits) == TRUE

\* Semaphore::acquire completes
AcquireReady(permits) == permits > 0

\* a recv that reports the channel closed once the Listener's sender is gone
RecvClosedOwn(srv) == ~srv.shutdown_complete_tx

\* shutdown_complete_rx.recv() returns None: every Sender is dropped, the
\* Listener's and the clone in each Handler
RecvClosed(srv) ==
    /\ ~srv.shutdown_complete_tx
    /\ \A c \in Conns : srv.tasks[c] \in {"none", "gone"}

\* Shutdown::recv completes
ShutdownRecvReady(srv) == ~srv.notify_shutdown

\* the task of the handler has ended: run returned Ok or Err, or panicked
HandlerEnded(h) == h.pc \in {"done", "error", "panicked"}

\* what the client of each connection may send to the server
ServerFrames(c) ==
    CASE c = "c1" -> {CmdFrame(<<StrSubscribe, ChanA>>),
                      CmdFrame(<<StrUnsubscribe>>)}
      [] c = "c2" -> {Integer(U64Zero)}
      [] OTHER -> {CmdFrame(<<StrPublish, ChanA, MsgM>>)}

\* the caller's shutdown future completes
ShutdownTrigger ==
    /\ server.run = "select"
    /\ ~server.trigger
    /\ server' = [server EXCEPT !.trigger = TRUE]
    /\ UNCHANGED <<codecVars, storeVars, pubsubVars, parseVars>>

\* server::run: a branch of the select! completes (Listener::run is dropped
\* if it has not returned), then drop(notify_shutdown) and
\* drop(shutdown_complete_tx)
RunSelect ==
    /\ server.run = "select"
    /\ server.trigger \/ server.listener = "failed"
    /\ server' = [server EXCEPT !.run = "drain",
                                !.listener = IF @ = "failed" THEN "failed"
                                             ELSE "cancelled",
                                !.backoff = 1,
                                !.notify_shutdown = FALSE,
                                !.shutdown_complete_tx = FALSE]
    /\ UNCHANGED <<codecVars, storeVars, pubsubVars, parseVars>>

\* server::run: shutdown_complete_rx.recv() returns and run with it; what is
\* left of the Listener is dropped, its Db handle too (Drop for Db and the
\* release of its Arc)
RunReturn ==
    /\ server.run = "drain"
    /\ RecvClosed(server)
    /\ server' = [server EXCEPT !.run = "returned"]
    /\ handles' = [handles EXCEPT !.held = @ - 1]
    /\ LET d == DbDrop(StrongCount, shutdown, background_task)
       IN  /\ shutdown' = d.shutdown
           /\ background_task' = d.background_task
    /\ UNCHANGED <<entries, expirations, next_id, now, sweeper, lastSet,
                   codecVars, pubsubVars, parseVars>>

\* Listener::run: limit_connection.acquire().await?.forget()
ListenerAcquire ==
    /\ server.run = "select"
    /\ server.listener = "acquire"
    /\ AcquireReady(server.permits)
    /\ server' = [server EXCEPT !.permits = @ - 1, !.listener = "accept",
                                !.backoff = 1]
    /\ UNCHANGED <<codecVars, storeVars, pubsubVars, parseVars>>

\* Listener::accept returns the socket of connection c; Listener::run builds
\* the Handler (db.clone()) and spawns its task
ListenerAccept(c) ==
    /\ server.run = "select"
    /\ server.listener = "accept"
    /\ handlers[c].pc = "pending"
    /\ server' = [server EXCEPT !.listener = "acquire", !.backoff = 1,
                                !.tasks[c] = "spawned"]
    /\ handlers' = [handlers EXCEPT ![c].pc = "run"]
    /\ handles' = [handles EXCEPT !.held = @ + 1]
    /\ UNCHANGED <<entries, expirations, next_id, shutdown, background_task,
                   now, sweeper, lastSet, pub_sub, codecVars, parseVars>>

\* Listener::accept: listener.accept() fails
ListenerAcceptErr ==
    /\ server.run = "select"
    /\ server.listener = "accept"
    /\ server' = [server EXCEPT !.listener =
                      IF server.backoff > BackoffCeiling THEN "failed"
                      ELSE "sleep",
                                !.backoff =
                      IF server.backoff > BackoffCeiling THEN 1 ELSE @]
    /\ UNCHANGED <<codecVars, storeVars, pubsubVars, parseVars>>

\* an accept whose backoff grows by one time unit
ListenerSleepAddOne ==
    /\ server.run = "select"
    /\ server.listener = "sleep"
    /\ server' = [server EXCEPT !.listener = "accept", !.backoff = @ + 1]
    /\ UNCHANGED <<codecVars, storeVars, pubsubVars, parseVars>>

\* Listener::accept: time::sleep is over, backoff *= 2
ListenerSleep ==
    /\ server.run = "select"
    /\ server.listener = "sleep"
    /\ server' = [server EXCEPT !.listener = "accept", !.backoff = @ * 2]
    /\ UNCHANGED <<codecVars, storeVars, pubsubVars, parseVars>>

\* a Subscribe::apply whose select! does not watch the shutdown signal
HandlerShutdownRunOnly(c) ==
    /\ handlers[c].pc = "run"
    /\ ShutdownRecvReady(server)
    /\ handlers' = [handlers EXCEPT ![c] = HandlerEnd(@, "done")]
    /\ UNCHANGED <<pub_sub, storeVars, codecVars, serverVars, parseVars>>

\* the select! of Handler::run and of Subscribe::apply: shutdown.recv()
\* completes and the handler returns Ok(())
HandlerShutdown(c) ==
    /\ handlers[c].pc \in {"run", "select"}
    /\ ShutdownRecvReady(server)
    /\ handlers' = [handlers EXCEPT ![c] = HandlerEnd(@, "done")]
    /\ pub_sub' = ReceiversDrop(pub_sub, handlers[c].subs)
    /\ UNCHANGED <<storeVars, codecVars, serverVars, parseVars>>

\* a Handler that gives its permit back at the end of run, after `?`: a
\* task that ends with an error keeps it
HandlerDropOkOnly(c) ==
    /\ server.tasks[c] = "spawned"
    /\ HandlerEnded(handlers[c])
    /\ server' = [server EXCEPT
                      !.permits = IF handlers[c].pc = "done" THEN @ + 1 ELSE @,
                      !.tasks[c] = "dropping"]
    /\ UNCHANGED <<codecVars, storeVars, pubsubVars, parseVars>>

\* Drop for Handler, as its task ends: add_permits(1)
HandlerDrop(c) ==
    /\ server.tasks[c] = "spawned"
    /\ HandlerEnded(handlers[c])
    /\ server' = [server EXCEPT !.permits = @ + 1, !.tasks[c] = "dropping"]
    /\ UNCHANGED <<codecVars, storeVars, pubsubVars, parseVars>>

\* ... then the fields of the Handler: its Db handle (Drop for Db and the
\* release of its Arc), its connection, its Shutdown and its clone of the
\* completion sender
HandlerDropFields(c) ==
    /\ server.tasks[c] = "dropping"
    /\ server' = [server EXCEPT !.tasks[c] = "gone"]
    /\ handles' = [handles EXCEPT !.held = @ - 1]
    /\ LET d == DbDrop(StrongCount, shutdown, background_task)
       IN  /\ shutdown' = d.shutdown
           /\ background_task' = d.background_task
    /\ UNCHANGED <<entries, expirations, next_id, now, sweeper, lastSet,
                   codecVars, pubsubVars, parseVars>>

\* server::run called: no connection accepted yet
ServerInit ==
    /\ tosend = <<>>
    /\ CodecIdle
    /\ StoreNew
    /\ handlers = [c \in Conns |-> [HandlerNew EXCEPT !.pc = "pending"]]
    /\ ServerNew
    /\ ParseIdle

\* what the clients and the caller do
ServerInput ==
    \/ ShutdownTrigger
    \/ \E c \in Conns :
           \/ /\ Reads(Conns) < MaxServerCmds
              /\ \/ \E frame \in ServerFrames(c) : HandlerRun(c, frame)
                 \/ \E frame \in ServerFrames(c) : SelectFrame(c, frame)
                 \/ HandlerEof(c)
           \/ ListenerAccept(c)
    \/ ListenerAcceptErr

\* what the tasks of connection c do by themselves
HandlerStep(c) ==
    \/ SubscribeToChannel(c)
    \/ SubscribeInsert(c)
    \/ \E i \in 1..Len(handlers[c].subs) : SelectMessage(c, i)
    \/ UnsubscribeChannel(c)
    \/ HandlerShutdown(c)
    \/ HandlerDrop(c)
    \/ HandlerDropFields(c)

\* what server::run and Listener::run do by themselves
ServerStep ==
    \/ RunSelect
    \/ RunReturn
    \/ ListenerAcquire
    \/ ListenerSleep

ServerNext ==
    \/ ServerInput
    \/ \E c \in Conns : HandlerStep(c)
    \/ ServerStep

SpecServer == ServerInit /\ [][ServerNext]_vars

\* every task that can take a step by itself takes one in the end
FairSpecServer ==
    /\ SpecServer
    /\ \A c \in Conns : WF_vars(HandlerStep(c))
    /\ WF_vars(ServerStep)

(***************************************************************************)
(* Command::from_frame on its own: one call on a frame of Requests.        *)
(***************************************************************************)
StrSetUpper == <<83, 69, 84>>
StrGetMixed == <<71, 101, 116>>
StrExLower == <<101, 120>>
StrOne == <<49>>

\* the first element of a request: names in several cases, and what is no
\* name
NameTokens ==
    {Bulk(StrSet), Bulk(StrSetUpper), Simple(StrGet), Bulk(StrGetMixed),
     Bulk(StrPublish), Bulk(StrSubscribeUpper), Bulk(StrUnsubscribe),
     Bulk(StrPing), Null, Bulk(<<255>>)}

\* the elements after it: a string, the two options, a lower-case option,
\* numbers as text and as Integer, what is no string, bytes that are no
\* UTF-8
ArgTokens ==
    {Bulk(KeyK), Bulk(StrEX), Bulk(StrPX), Bulk(StrExLower), Bulk(StrOne),
     Integer(U64FromNat(2)), Null, Bulk(<<255>>)}

\* the frames passed to Command::from_frame
Requests ==
    {Array(<<name>> \o args) :
         name \in NameTokens, args \in SeqsUpTo(ArgTokens, MaxArgs)}
        \cup {Array(<<>>), Null, Bulk(StrGet), Simple(StrGet),
              Integer(U64Zero), Error(StrGet)}

\* Command::from_frame(request)
ParseCall ==
    /\ command = None
    /\ command' = Some(FromFrame(request))
    /\ UNCHANGED <<request, codecVars, storeVars, pubsubVars, serverVars>>

ParseInit ==
    /\ tosend = <<>>
    /\ CodecIdle
    /\ StoreNew
    /\ HandlersNew
    /\ ServerNew
    /\ request \in Requests
    /\ command = None

ParseNext == ParseCall

SpecParse == ParseInit /\ [][ParseNext]_vars

(***************************************************************************)
(* One connection down to its bytes: the client of ConnPeer writes its     *)
(* requests with write_frame (CodecWrite) and may close; the Handler of    *)
(* ConnPeer reads them with read_frame from the accumulation buffer rd and *)
(* applies them.  got holds the frames read_frame has returned, of which   *)
(* the Handler has taken the first ncmds.  Another connection publishes.   *)
(***************************************************************************)
ConnPeer == "c1"

\* a request whose second element write_decimal cannot write: the client's
\* write_frame fails after the bytes of the first element are flushed
TruncatedFrame == Array(<<Bulk(StrGet), Integer(<<0, 100000, 0>>)>>)

\* what the client of ConnPeer may send
ConnFrames ==
    {CmdFrame(<<StrSubscribe, ChanA>>),
     CmdFrame(<<StrGet, KeyK>>),
     CmdFrame(<<StrPing>>),
     CmdFrame(<<StrUnsubscribe>>),
     TruncatedFrame}

\* what one read_buf may deliver of len bytes in flight: all of them, or
\* the first ReadChunk
ReadSizes(len) == {n \in {len, ReadChunk} : n \in 1..len}

\* a Handler that reads ahead: it decodes the next request while the one
\* before is still being applied
ReadsAhead(c) ==
    /\ handlers[c].pc \notin {"done", "error", "panicked"}
    /\ Len(got) <= handlers[c].ncmds + 1

\* the Handler of c is inside read_frame: Handler::run or the select! of
\* Subscribe::apply awaits it, and every frame it returned has been taken
InReadFrame(c) ==
    /\ handlers[c].pc \in {"run", "select"}
    /\ Len(got) = handlers[c].ncmds

\* read_frame of the Handler: parse_frame on the buffer
ConnReadParse == InReadFrame(ConnPeer) /\ ReadFrameParse

\* read_frame of the Handler: read_buf delivers n > 0 bytes
ConnReadRead(n) == InReadFrame(ConnPeer) /\ ReadFrameRead(n)

\* read_frame of the Handler: read_buf returns 0
ConnReadEof == InReadFrame(ConnPeer) /\ ReadFrameEof

\* read_frame returned Some(frame): from_frame and apply in Handler::run,
\* handle_command in the select! of Subscribe::apply
ConnApply ==
    /\ handlers[ConnPeer].ncmds < Len(got)
    /\ \/ HandlerRun(ConnPeer, got[handlers[ConnPeer].ncmds + 1])
       \/ SelectFrame(ConnPeer, got[handlers[ConnPeer].ncmds + 1])

\* read_frame returned Ok(None)
ConnEof == rd.pc = "eof" /\ HandlerEof(ConnPeer)

\* read_frame returned Err: `res?` ends the task with the error
HandlerReadErr(c) ==
    /\ handlers[c].pc \in {"run", "select"}
    /\ Reads(Conns) < MaxCmds
    /\ handlers' = [handlers EXCEPT ![c] =
           HandlerEnd([@ EXCEPT !.ncmds = @ + 1], "error")]
    /\ pub_sub' = ReceiversDrop(pub_sub, handlers[c].subs)
    /\ UNCHANGED <<storeVars, codecVars, serverVars, parseVars>>

ConnErr == rd.pc = "err" /\ HandlerReadErr(ConnPeer)

\* the select! of Subscribe::apply takes the message of stream i: read_frame
\* has not completed (it is dropped where it is; what it has read so far
\* stays in the buffer of the Connection)
ConnMessage(i) ==
    /\ InReadFrame(ConnPeer)
    /\ rd.pc \in {"parse", "read"}
    /\ SelectMessage(ConnPeer, i)

\* another client publishes on channel a
ConnPublish == HandlerRun("c2", CmdFrame(<<StrPublish, ChanA, MsgM>>))

ConnInit ==
    /\ tosend \in SeqsUpTo(ConnFrames, MaxScript) \ {<<>>}
    /\ CodecIdle
    /\ StoreNew
    /\ HandlersNew
    /\ ServerNew
    /\ ParseIdle

ConnNext ==
    \/ CodecWrite
    \/ CodecClose
    \/ ConnReadParse
    \/ \E n \in ReadSizes(Len(wr.wire)) : ConnReadRead(n)
    \/ ConnReadEof
    \/ ConnApply
    \/ ConnEof
    \/ ConnErr
    \/ SubscribeToChannel(ConnPeer)
    \/ SubscribeInsert(ConnPeer)
    \/ \E i \in 1..Len(handlers[ConnPeer].subs) : ConnMessage(i)
    \/ UnsubscribeChannel(ConnPeer)
    \/ ConnPublish

SpecConn == ConnInit /\ [][ConnNext]_vars

(***************************************************************************)
(* Connections whose I/O fails: the server accepts the connections of      *)
(* IoConns, and the socket of an accepted connection may start to fail     *)
(* its writes (the peer is gone) or fail a read.                           *)
(***************************************************************************)
IoConns == {"c1", "c2"}

\* what the client of each connection may send
IoFrames(c) ==
    CASE c = "c1" -> {CmdFrame(<<StrSubscribe, ChanA>>),
                      CmdFrame(<<StrUnsubscribe>>),
                      CmdFrame(<<StrGet, KeyK>>)}
      [] OTHER -> {CmdFrame(<<StrPublish, ChanA, MsgM>>),
                   CmdFrame(<<StrPing>>),
                   CmdFrame(<<StrSet, KeyK, ValueV>>)}

\* from now on write_frame on the connection of c returns Err
StreamBreaks(c) ==
    /\ server.tasks[c] = "spawned"
    /\ ~WriteFails(c)
    /\ server' = [server EXCEPT !.wfail = @ \cup {c}]
    /\ UNCHANGED <<codecVars, storeVars, pubsubVars, parseVars>>

IoNext ==
    \/ ListenerAcquire
    \/ \E c \in IoConns :
           \/ ListenerAccept(c)
           \/ StreamBreaks(c)
           \/ \E frame \in IoFrames(c) : HandlerRun(c, frame)
           \/ \E frame \in IoFrames(c) : SelectFrame(c, frame)
           \/ HandlerReadErr(c)
           \/ SubscribeToChannel(c)
           \/ SubscribeInsert(c)
           \/ \E i \in 1..Len(handlers[c].subs) : SelectMessage(c, i)
           \/ UnsubscribeChannel(c)
           \/ HandlerDrop(c)
           \/ HandlerDropFields(c)

SpecIo == ServerInit /\ [][IoNext]_vars

(***************************************************************************)
(* A peer that writes any bytes: read_frame on a stream that holds a       *)
(* sequence of RawBytes, well formed or not.                               *)
(***************************************************************************)
\* '$', '-', ':', '1', CR, LF
RawBytes == {ByteDollar, ByteMinus, ByteColon, ByteZero + 1, ByteCR, ByteLF}

RawInit ==
    /\ tosend = <<>>
    /\ wr \in {[NewWriter EXCEPT !.wire = w] : w \in SeqsUpTo(RawBytes, MaxRaw)}
    /\ closed = FALSE
    /\ sent = <<>>
    /\ rd = [buffer |-> <<>>, pc |-> "parse", partial |-> FALSE]
    /\ got = <<>>
    /\ StoreNew
    /\ HandlersNew
    /\ ServerNew
    /\ ParseIdle

RawNext ==
    \/ CodecClose
    \/ ReadFrameParse
    \/ \E n \in ReadSizes(Len(wr.wire)) : ReadFrameRead(n)
    \/ ReadFrameEof

SpecRaw == RawInit /\ [][RawNext]_vars

(***************************************************************************)
(* The client's SET (client.rs set, set_expires): Set::into_frame, then    *)
(* write_frame; the Handler of ConnPeer reads the frame and applies it.    *)
(* command is the Set the client holds, request the frame made of it.      *)
(***************************************************************************)
\* Set::into_frame
SetIntoFrame(cmd) == Array(<<Bulk(StrSet), Bulk(cmd.key), Bulk(cmd.value)>>)

\* the Set commands of the client: Client::set (no expiry) and
\* Client::set_expires (a Duration, in milliseconds)
ClientSets ==
    {Command("Set", k, v, e, <<>>) :
         k \in Keys, v \in Values,
         e \in {None} \cup {Some(U64FromNat(d)) : d \in 1..MaxTTL}}

\* Client::set_cmd: set.into_frame(), handed to write_frame
ClientSetCmd ==
    /\ command # None
    /\ request = Null
    /\ sent = <<>>
    /\ request' = SetIntoFrame(command[1])
    /\ tosend' = <<SetIntoFrame(command[1])>>
    /\ UNCHANGED <<command, sent, wr, closed, rd, got, storeVars, pubsubVars,
                   serverVars>>

\* Handler::run: read_frame returned Some(frame), from_frame and apply
EncApply ==
    /\ handlers[ConnPeer].ncmds < Len(got)
    /\ HandlerRun(ConnPeer, got[handlers[ConnPeer].ncmds + 1])

EncInit ==
    /\ tosend = <<>>
    /\ CodecIdle
    /\ StoreNew
    /\ HandlersNew
    /\ ServerNew
    /\ request = Null
    /\ command \in {Some(cmd) : cmd \in ClientSets}

EncNext ==
    \/ ClientSetCmd
    \/ CodecWrite
    \/ ConnReadParse
    \/ \E n \in ReadSizes(Len(wr.wire)) : ConnReadRead(n)
    \/ EncApply

SpecEncode == EncInit /\ [][EncNext]_vars

(***************************************************************************)
(* Claims about the codec, checked under SpecCodec.                        *)
(***************************************************************************)
\* what one write_frame of frame on a fresh Connection does
Encoded(frame) == WriteFrame(NewWriter, frame)

\* the bytes are one whole frame: write_frame wrote them and Frame::check
\* accepts them using every byte
ValidEncoded(frame) ==
    /\ Encoded(frame).ok
    /\ Check(Encoded(frame).wire, 0) = [r |-> "Ok", pos |-> Len(Encoded(frame).wire)]

\* C1: a valid encoded frame delivered in any number of reads, split at any
\* byte, decodes as it does delivered whole: while only a strict prefix is
\* buffered Frame::check reports Incomplete and parse_frame returns None
\* (never an error, never a shorter frame), the buffered prefix is kept
\* (buffer and bytes in flight together are still the frame), and the frame
\* returned in the end is the frame a single read of all bytes returns.
C1_SplitReadDecodesAsWhole ==
    (Len(sent) = 1 /\ ValidEncoded(sent[1])) =>
        LET enc == Encoded(sent[1]).wire
            whole == ParseFrame(enc)
        IN  /\ rd.pc # "err"
            /\ got = <<>> => rd.buffer \o wr.wire = enc
            /\ (got = <<>> /\ Len(rd.buffer) < Len(enc)) =>
                    /\ Check(rd.buffer, 0).r = "Incomplete"
                    /\ ParseFrame(rd.buffer) =
                           [r |-> "None", f |-> Null, buffer |-> rd.buffer]
            /\ got # <<>> =>
                    /\ whole.r = "Some"
                    /\ got = <<whole.f>>
                    /\ rd.buffer = <<>> /\ wr.wire = <<>>

\* C1 witness: an Array frame of which parse_frame found a strict prefix
\* buffered, and which read_frame returned once the rest had arrived
C1_Witness ==
    /\ Len(sent) = 1 /\ ValidEncoded(sent[1])
    /\ sent[1].t = "Array" /\ Len(sent[1].a) = 2
    /\ rd.partial
    /\ got = sent

\* no CR LF pair inside s
NoCRLF(s) == \A i \in 1..(Len(s) - 1) : ~(s[i] = ByteCR /\ s[i + 1] = ByteLF)

RECURSIVE PlainTexts(_)
\* the Simple and Error texts of the frame hold no line break
PlainTexts(frame) ==
    CASE frame.t \in {"Simple", "Error"} -> NoCRLF(frame.s)
      [] frame.t = "Array" -> \A i \in 1..Len(frame.a) : PlainTexts(frame.a[i])
      [] OTHER -> TRUE

\* C2: every frame (here: every frame whose Simple and Error texts hold no
\* line break) is written by write_frame without error, and the bytes
\* written decode, with Frame::check and Frame::parse, to the frame itself,
\* using exactly the bytes written.
C2_RoundTrip ==
    (Len(sent) = 1 /\ PlainTexts(sent[1])) =>
        /\ wr.ok
        /\ ParseFrame(Encoded(sent[1]).wire) =
               [r |-> "Some", f |-> sent[1], buffer |-> <<>>]

\* the frames write_decimal can write: every Integer below 10^12
RECURSIVE SmallIntegers(_)
SmallIntegers(frame) ==
    CASE frame.t = "Integer" -> Len(U64ToString(frame.v)) <= WriteDecimalBuf
      [] frame.t = "Array" -> \A i \in 1..Len(frame.a) : SmallIntegers(frame.a[i])
      [] OTHER -> TRUE

\* the round trip where the code does have it (not a claim's formula)
RoundTripWhereWritable ==
    (Len(sent) = 1 /\ PlainTexts(sent[1]) /\ SmallIntegers(sent[1])) =>
        /\ wr.ok
        /\ ParseFrame(Encoded(sent[1]).wire) =
               [r |-> "Some", f |-> sent[1], buffer |-> <<>>]
        /\ got # <<>> => got = sent

(***************************************************************************)
(* Claims about the store, checked under SpecStore and FairSpecStore.      *)
(***************************************************************************)
\* C3: last write wins.  get(k) is none for a key never set; after sets on
\* k it is the value of the latest one, or none once that set's deadline
\* has come (the sweeper may have purged it): never an older value, never
\* none before the deadline, never none for a set without expiry.
C3_LastWriteWins ==
    \A k \in Keys :
        IF lastSet[k] = None THEN DbGet(entries, k) = None
        ELSE LET last == lastSet[k][1]
             IN  /\ DbGet(entries, k) \in {None, Some(last.data)}
                 /\ (last.expires_at = None \/ now < last.expires_at[1])
                        => DbGet(entries, k) = Some(last.data)

\* C3 witness: k was set twice, first with an expiry that has passed, then
\* without one; the sweeper has run since, and get(k) is the second value
C3_Witness ==
    /\ lastSet[KeyK] = Some([data |-> ValueW, expires_at |-> None])
    /\ entries[KeyK] # None /\ entries[KeyK][1].id = 1
    /\ now > 0
    /\ sweeper.pc = "wait"
    /\ DbGet(entries, KeyK) = Some(ValueW)
    /\ DbGet(entries, KeyL) = None

\* the deadline of an entry has come at instant t
Due(e, t) == e # None /\ e[1].expires_at # None /\ e[1].expires_at[1] <= t

C5_NeverSleepsPastEarliest ==
    (sweeper.pc = "sleep" /\ ~background_task /\ expirations # {}) =>
        sweeper.when[1] <= NextExpiration(expirations)[1]

\* C5, on the clock: no entry is still stored after its deadline while the
\* sweeper sleeps towards a later instant.
C5_PurgedAtOwnDeadline ==
    \A k \in Keys :
        (sweeper.pc = "sleep" /\ ~background_task /\ Due(entries[k], now)) =>
            sweeper.when[1] <= entries[k][1].expires_at[1]

\* C6: every key set with an expiry is eventually removed (or replaced, or
\* the store is shut down).
C6_EventuallyRemoved ==
    \A k \in Keys : \A i \in 0..(MaxSets - 1) :
        (entries[k] # None /\ entries[k][1].id = i
            /\ entries[k][1].expires_at # None)
          ~> (entries[k] = None \/ entries[k][1].id # i \/ shutdown)

\* C6, as a state: the sweeper does not wait for a wake-up, with none
\* pending, while the index holds a deadline.
C6_IdleSweeperIsWoken ==
    (sweeper.pc = "wait" /\ ~background_task /\ ~shutdown) => expirations = {}

\* the index records of the pair (when, id)
RecordsOf(xs, when, id) == {x \in xs : x.when = when /\ x.id = id}

\* entry e has a deadline
Expiring(e) == e # None /\ e[1].expires_at # None

\* C21: the expiration index and the entries agree.  Each entry with
\* expires_at = Some(t) and id i has exactly one index record (t, i), which
\* maps to its key; every index record belongs to such an entry; and once an
\* entry with a deadline is replaced or removed, no record of its (deadline,
\* id) is left, so an old deadline never purges a newer value.
C21_IndexMatchesEntries ==
    /\ [](/\ \A k \in Keys :
               Expiring(entries[k]) =>
                   RecordsOf(expirations, entries[k][1].expires_at[1],
                             entries[k][1].id)
                     = {[when |-> entries[k][1].expires_at[1],
                         id |-> entries[k][1].id, key |-> k]}
          /\ \A x \in expirations :
               /\ x.key \in Keys
               /\ Expiring(entries[x.key])
               /\ entries[x.key][1].id = x.id
               /\ entries[x.key][1].expires_at = Some(x.when))
    /\ [][\A k \in Keys :
             (Expiring(entries[k]) /\ entries'[k] # entries[k]) =>
                 /\ RecordsOf(expirations', entries[k][1].expires_at[1],
                              entries[k][1].id) = {}
                 /\ \A x \in expirations' :
                        x.key = k => (entries'[k] # None
                                        /\ x.id = entries'[k][1].id)
        ]_vars

\* C21 witness: k was set with deadline 1 (the sweeper still sleeps towards
\* it), then set again with deadline 2; l was never set.  The index holds
\* the record of the second set alone.
C21_Witness ==
    /\ lastSet[KeyL] = None
    /\ now = 0
    /\ sweeper = [pc |-> "sleep", when |-> Some(1)]
    /\ entries[KeyK] # None
    /\ entries[KeyK][1].id = 1
    /\ entries[KeyK][1].expires_at = Some(2)
    /\ expirations = {[when |-> 2, id |-> 1, key |-> KeyK]}

\* C27: the shutdown flag goes from false to true, never back; it is set
\* exactly when the last Db handle outside the sweeper is released (once no
\* handle is held or being dropped, the flag is set) and not while a handle
\* is still held; under every interleaving of the drops.
C27_ShutdownWhenLastHandleGoes ==
    /\ [](/\ shutdown => handles.held = 0
          /\ (handles.held = 0 /\ handles.dropped = 0) => shutdown)
    /\ [][shutdown => shutdown']_vars

\* C28: once the shutdown flag is set the sweeper task terminates in the end,
\* whatever it was doing: sleeping until a deadline, waiting with no
\* deadline pending, or between its shutdown check and its next wait.
C28_SweeperTerminates == shutdown ~> (sweeper.pc = "done")


(***************************************************************************)
(* Claims about pub/sub, checked under SpecPubSub.                         *)
(***************************************************************************)
\* the responses of the SUBSCRIBE loop that concern channel ch
IsKindFor(f, kind, ch) ==
    /\ f.t = "Array"
    /\ Len(f.a) = 3
    /\ f.a[1] = Bulk(kind)
    /\ f.a[2] = Bulk(ch)

IsMessageFor(f, ch) == IsKindFor(f, StrMessage, ch)

\* the last place of out holding a frame of this kind for ch, 0 if none
LastOf(out, kind, ch) ==
    LET at == {i \in 1..Len(out) : IsKindFor(out[i], kind, ch)}
    IN  IF at = {} THEN 0 ELSE CHOOSE i \in at : \A j \in at : j <= i

\* the payloads of the message frames for ch written after place i of out
PayloadsAfter(out, i, ch) ==
    LET msgs == SelectSeq(SubSeq(out, i + 1, Len(out)),
                          LAMBDA f : IsMessageFor(f, ch))
    IN  [k \in 1..Len(msgs) |-> msgs[k].a[3].s]

\* what connection c has been sent for ch since it last joined it is the
\* publishes made to ch after entry e's receiver was created, in publish
\* order, each once, up to the receiver's position
DeliveredInOrder(c, e) ==
    LET out == handlers[c].out
        seen == PayloadsAfter(out, LastOf(out, StrSubscribe, e.key), e.key)
        log == pub_sub[e.key][1].log
    IN  /\ e.next = e.start + Len(seen)
        /\ e.next <= Len(log)
        /\ seen = SubSeq(log, e.start + 1, e.next)

\* every message frame for ch follows a subscribe frame for ch, with no
\* unsubscribe frame for ch in between
OnlyWhileJoined(c, ch) ==
    LET out == handlers[c].out
    IN  \A i \in 1..Len(out) :
            IsMessageFor(out[i], ch) =>
                \E j \in 1..(i - 1) :
                    /\ IsKindFor(out[j], StrSubscribe, ch)
                    /\ \A k \in (j + 1)..(i - 1) :
                           ~IsKindFor(out[k], StrUnsubscribe, ch)

LiveReceivers(ch) ==
    Cardinality({c \in Conns : StreamMapIndex(handlers[c].subs, ch) # 0})
        + Cardinality({c \in Conns :
                           handlers[c].rx # None /\ handlers[c].rx[1].key = ch})

\* C8: a PUBLISH is answered with the number of receivers of the channel
\* alive at the call, 0 when there is none (never subscribed to, or every
\* receiver dropped), and the handler goes on to its next frame, however
\* far behind the receivers are.
C8_PublishCountsLiveReceivers ==
    [][\A c \in Conns :
           \A frame \in ClientFrames(c) :
               HandlerRun(c, frame) /\ FromFrame(frame).cmd.c = "Publish" =>
                   /\ handlers'[c].pc = "run"
                   /\ handlers'[c].out =
                          Append(handlers[c].out,
                                 Integer(U64FromNat(
                                     LiveReceivers(FromFrame(frame).cmd.key))))
      ]_vars

\* a publish answered 1 while the one receiver is further behind than the
\* channel holds
C8_Witness ==
    \E c \in Conns, d \in Conns :
        /\ handlers[c].out # <<>>
        /\ handlers[c].out[Len(handlers[c].out)] = Integer(U64FromNat(1))
        /\ \E i \in 1..Len(handlers[d].subs) :
              LET e == handlers[d].subs[i]
              IN  Len(pub_sub[e.key][1].log) - e.next > ChannelCapacity

\* C9: a receiver that has fallen behind does not end the SUBSCRIBE loop:
\* no handler panics.
C9_LagIsSwallowed ==
    \A c \in Conns : handlers[c].pc # "panicked"

\* the turn of handle_command for a channel the connection has not joined
UnsubscribeNotJoined(c) ==
    /\ handlers[c].pc = "unsubscribe"
    /\ StreamMapIndex(handlers[c].subs, Head(handlers[c].unsub)) = 0
    /\ handlers'[c] # handlers[c]

RECURSIVE RunUnsubscribe(_)
\* handle_command's `for channel_name in unsubscribe.channels` run to its end
RunUnsubscribe(h) ==
    IF h.pc = "unsubscribe" THEN RunUnsubscribe(HandleUnsubscribe(h)) ELSE h

\* the keys, and the entries, of a StreamMap as sets
JoinedSet(subs) == {subs[i].key : i \in 1..Len(subs)}
EntrySet(subs) == {subs[i] : i \in 1..Len(subs)}

\* the channels named by a sequence
Named(channels) == {channels[i] : i \in 1..Len(channels)}

\* C11: inside a SUBSCRIBE loop with joined set J, an UNSUBSCRIBE with no
\* channel leaves every channel of J and writes exactly |J| frames
\* ["unsubscribe", channel, remaining], one per channel of J, with
\* remaining |J|-1 down to 0; an UNSUBSCRIBE naming channels leaves the
\* named channels only.  The loop that does it runs turn by turn, each turn
\* dropping the receiver of the channel it leaves.
C11_UnsubscribeLeaves ==
    [][\A c \in Conns :
           /\ \A frame \in ClientFrames(c) :
                  (/\ SelectFrame(c, frame)
                   /\ FromFrame(frame).r = "Ok"
                   /\ FromFrame(frame).cmd.c = "Unsubscribe") =>
                      LET h == handlers[c]
                          J == JoinedSet(h.subs)
                          n == Cardinality(J)
                          named == FromFrame(frame).cmd.channels
                          end == RunUnsubscribe(handlers'[c])
                          new == SubSeq(end.out, Len(h.out) + 1, Len(end.out))
                      IN  /\ end.pc = "select"
                          /\ Len(end.out) >= Len(h.out)
                          /\ SubSeq(end.out, 1, Len(h.out)) = h.out
                          /\ named = <<>> =>
                                 /\ end.subs = <<>>
                                 /\ Len(new) = n
                                 /\ {new[i].a[2].s : i \in 1..Len(new)} = J
                                 /\ \A i \in 1..Len(new) :
                                        new[i] = MakeUnsubscribeFrame(
                                                     new[i].a[2].s, n - i)
                          /\ named # <<>> =>
                                 /\ EntrySet(end.subs) =
                                        {e \in EntrySet(h.subs) :
                                             e.key \notin Named(named)}
                                 /\ Len(end.subs) = Cardinality(J \ Named(named))
                                 /\ Len(new) = Len(named)
           /\ (handlers[c].pc = "unsubscribe" /\ handlers'[c] # handlers[c]) =>
                  \A ch \in {Head(handlers[c].unsub)} :
                      /\ handlers'[c] = HandleUnsubscribe(handlers[c])
                      /\ StreamMapIndex(handlers'[c].subs, ch) = 0
                      /\ LiveReceivers(ch)' =
                             LiveReceivers(ch) -
                                 (IF ch \in JoinedSet(handlers[c].subs)
                                  THEN 1 ELSE 0)
                      /\ pub_sub'[ch] # None =>
                             pub_sub'[ch][1].rx_cnt = LiveReceivers(ch)'
      ]_vars

\* c1 joined "a" and "b", sent UNSUBSCRIBE without a channel, and has been
\* answered for both
C11_Witness ==
    /\ handlers["c1"].pc = "select"
    /\ handlers["c1"].subs = <<>>
    /\ handlers["c1"].out = <<MakeSubscribeFrame(ChanA, 1),
                              MakeSubscribeFrame(ChanB, 2),
                              MakeUnsubscribeFrame(ChanA, 1),
                              MakeUnsubscribeFrame(ChanB, 0)>>

\* a frame that is a SUBSCRIBE command arrives at connection c, at top
\* level or inside the loop
SubscribeArrives(c, frame) ==
    /\ HandlerRun(c, frame) \/ SelectFrame(c, frame)
    /\ FromFrame(frame).r = "Ok"
    /\ FromFrame(frame).cmd.c = "Subscribe"

\* C15: for each channel named in a SUBSCRIBE (top-level or nested), in the
\* order requested, the server joins the channel and writes
\* ["subscribe", channel, count], count being the number of channels the
\* connection has joined immediately after that join: the channels named
\* are queued in order and nothing is written yet; each turn takes the head
\* of the queue, gets a receiver of that channel, then holds the channel in
\* its map (once) and writes the frame with the size of the map.
C15_SubscribeJoinsInOrder ==
    [][\A c \in Conns :
           /\ \A frame \in ClientFrames(c) :
                  SubscribeArrives(c, frame) =>
                      /\ handlers[c].channels = <<>>
                      /\ handlers'[c].channels = FromFrame(frame).cmd.channels
                      /\ handlers'[c].channels # <<>>
                      /\ handlers'[c].pc = "subscribe"
                      /\ handlers'[c].out = handlers[c].out
                      /\ handlers'[c].subs = handlers[c].subs
           /\ (handlers[c].pc = "subscribe" /\ handlers'[c] # handlers[c]) =>
                  \A ch \in {Head(handlers[c].channels)} :
                      /\ handlers'[c].pc = "insert"
                      /\ handlers'[c].rx # None
                      /\ handlers'[c].rx[1].key = ch
                      /\ handlers'[c].channels = Tail(handlers[c].channels)
                      /\ handlers'[c].out = handlers[c].out
                      /\ pub_sub'[ch] # None
                      /\ pub_sub'[ch][1].rx_cnt = LiveReceivers(ch)'
                      /\ LiveReceivers(ch)' = LiveReceivers(ch) + 1
           /\ (handlers[c].pc = "insert" /\ handlers'[c] # handlers[c]) =>
                  \A ch \in {handlers[c].rx[1].key} :
                      /\ handlers'[c].pc =
                             IF handlers[c].channels = <<>> THEN "select"
                             ELSE "subscribe"
                      /\ handlers'[c].channels = handlers[c].channels
                      /\ JoinedSet(handlers'[c].subs) =
                             JoinedSet(handlers[c].subs) \cup {ch}
                      /\ handlers'[c].out =
                             Append(handlers[c].out,
                                    MakeSubscribeFrame(
                                        ch,
                                        Cardinality(JoinedSet(handlers'[c].subs))))
                      /\ pub_sub'[ch][1].rx_cnt = LiveReceivers(ch)'
      ]_vars

\* c1 sent subscribe a, then SUBSCRIBE a b inside the loop, and has been
\* answered for the three joins
C15_Witness ==
    /\ handlers["c1"].pc = "select"
    /\ handlers["c1"].ncmds = 2
    /\ handlers["c1"].out = <<MakeSubscribeFrame(ChanA, 1),
                              MakeSubscribeFrame(ChanA, 1),
                              MakeSubscribeFrame(ChanB, 2)>>

\* a frame that is a command other than SUBSCRIBE and UNSUBSCRIBE arrives at
\* connection c inside its SUBSCRIBE loop
OtherCommandInLoop(c, frame) ==
    /\ SelectFrame(c, frame)
    /\ FromFrame(frame).r = "Ok"
    /\ FromFrame(frame).cmd.c \notin {"Subscribe", "Unsubscribe"}

\* a name with its letters A-Z turned into a-z
LowerCase(name) ==
    [i \in 1..Len(name) |->
         IF name[i] \in 65..90 THEN name[i] + 32 ELSE name[i]]

\* the command name the client sent: the first element of the frame, in
\* lower case
NameSent(frame) == LowerCase(frame.a[1].s)

\* C16: inside a SUBSCRIBE loop, any command other than SUBSCRIBE and
\* UNSUBSCRIBE (GET, SET, PUBLISH, an unknown name) is answered with
\* Error("ERR unknown command '<name>'"), <name> being the name of the
\* command the client sent; the store is not modified, nothing is
\* published, and the connection stays in the loop.
C16_OtherCommandsRejectedByName ==
    [][\A c \in Conns :
           \A frame \in ClientFrames(c) :
               OtherCommandInLoop(c, frame) =>
                   /\ handlers'[c].out =
                          Append(handlers[c].out,
                                 Error(StrErrUnknown \o NameSent(frame)
                                           \o StrQuote))
                   /\ handlers'[c].pc = "select"
                   /\ handlers'[c].subs = handlers[c].subs
                   /\ UNCHANGED <<storeVars, pub_sub>>
      ]_vars

\* a frame whose command name is none of the five arrives at connection c
\* at top level
UnknownAtTopLevel(c, frame) ==
    /\ HandlerRun(c, frame)
    /\ FromFrame(frame).r = "Ok"
    /\ FromFrame(frame).cmd.c = "Unknown"

\* C19: a top-level command with an unrecognised name is answered with
\* Error("ERR unknown command '<name>'"); the store and the channels are
\* as they were, and the handler awaits the next frame of the connection.
C19_UnknownAnsweredAndGoesOn ==
    [][\A c \in Conns :
           \A frame \in ClientFrames(c) :
               UnknownAtTopLevel(c, frame) =>
                   /\ NameSent(frame) \notin
                          {StrGet, StrSet, StrPublish, StrSubscribe,
                           StrUnsubscribe}
                   /\ handlers'[c].out =
                          Append(handlers[c].out,
                                 Error(StrErrUnknown \o NameSent(frame)
                                           \o StrQuote))
                   /\ handlers'[c].pc = "run"
                   /\ UNCHANGED <<storeVars, pub_sub>>
      ]_vars

\* c2 sent ping, was answered, then sent set k v and was answered OK
C19_Witness ==
    /\ handlers["c2"].pc = "run"
    /\ handlers["c2"].out =
           <<Error(StrErrUnknown \o StrPing \o StrQuote), Simple(StrOK)>>
    /\ DbGet(entries, KeyK) = Some(ValueV)

\* a frame that is an UNSUBSCRIBE command arrives at connection c at top
\* level
UnsubscribeAtTopLevel(c, frame) ==
    /\ HandlerRun(c, frame)
    /\ FromFrame(frame).r = "Ok"
    /\ FromFrame(frame).cmd.c = "Unsubscribe"

\* C20: an UNSUBSCRIBE received at top level is reported as an error by
\* apply: the handler of that connection ends with the error, nothing is
\* written, and neither the channels, nor the store, nor any other
\* connection's handler changes.
C20_TopLevelUnsubscribeIsError ==
    [][\A c \in Conns :
           \A frame \in ClientFrames(c) :
               UnsubscribeAtTopLevel(c, frame) =>
                   /\ handlers'[c].pc = "error"
                   /\ handlers'[c].out = handlers[c].out
                   /\ handlers'[c].subs = handlers[c].subs
                   /\ \A d \in Conns \ {c} : handlers'[d] = handlers[d]
                   /\ UNCHANGED <<storeVars, pub_sub>>
      ]_vars

\* c1 sent an UNSUBSCRIBE as its first command and its handler ended with the
\* error, while c2 stays in its SUBSCRIBE loop on "a"
C20_Witness ==
    /\ handlers["c1"].pc = "error"
    /\ handlers["c1"].ncmds = 1
    /\ handlers["c1"].out = <<>>
    /\ handlers["c2"].pc = "select"
    /\ pub_sub[ChanA] # None
    /\ pub_sub[ChanA][1].rx_cnt = 1

(***************************************************************************)
(* Claims about the server, checked under SpecServer and FairSpecServer.   *)
(***************************************************************************)
\* the handler of c is live: spawned, and its task has not ended
Live(c) == server.tasks[c] = "spawned" /\ ~HandlerEnded(handlers[c])

LiveHandlers == Cardinality({c \in Conns : Live(c)})

\* C12: at every moment at most MAX_CONNECTIONS handlers are live; the
\* listener takes one permit before each accept, so a connection is
\* accepted only while fewer than MAX_CONNECTIONS handlers are live: with
\* all permits taken the next one waits until a handler has terminated.
C12_AtMostMaxConnections ==
    /\ [](LiveHandlers <= MAX_CONNECTIONS)
    /\ [][/\ \A c \in Conns :
                 ListenerAccept(c) =>
                     /\ LiveHandlers < MAX_CONNECTIONS
                     /\ Live(c)'
          /\ (server.listener = "acquire" /\ server'.listener = "accept") =>
                 /\ server.permits > 0
                 /\ server'.permits = server.permits - 1
          /\ server'.listener = "accept" =>
                 server.listener \in {"acquire", "accept", "sleep"}
         ]_vars

\* every connection has been accepted, the last one after a handler had
\* terminated, and MAX_CONNECTIONS handlers are live
C12_Witness ==
    /\ \A c \in Conns : server.tasks[c] # "none"
    /\ LiveHandlers = MAX_CONNECTIONS
    /\ Cardinality(Conns) > MAX_CONNECTIONS

\* C13: server::run returns only after every spawned handler has finished:
\* in no reachable state has run returned while a handler is live or not
\* yet dropped, whether run left the accept loop on the shutdown trigger
\* (listener cancelled) or on a fatal accept error (listener failed).
C13_RunReturnsAfterHandlers ==
    server.run = "returned" =>
        /\ server.listener \in {"cancelled", "failed"}
        /\ \A c \in Conns :
               /\ ~Live(c)
               /\ server.tasks[c] \in {"none", "gone"}
               /\ handlers[c].pc = "pending" \/ HandlerEnded(handlers[c])

\* run has returned after a fatal accept error, with a handler spawned
\* before it that was still waiting for a frame when the accept loop ended
C13_Witness ==
    /\ server.run = "returned"
    /\ server.listener = "failed"
    /\ ~server.trigger
    /\ Cardinality({c \in Conns : server.tasks[c] = "gone"
                                    /\ handlers[c].pc = "done"
                                    /\ handlers[c].ncmds = 0}) = 1

IsStr(f) == f.t = "Simple" \/ (f.t = "Bulk" /\ Utf8Valid(f.s))
IsBytes(f) == f.t \in {"Simple", "Bulk"}
IsNum(f) ==
    \/ f.t = "Integer"
    \/ f.t \in {"Simple", "Bulk"} /\ f.s # <<>> /\ \A i \in 1..Len(f.s) : IsDigit(f.s[i])

\* the number a small IsNum element spells
NumOf(f) == IF f.t = "Integer" THEN U64ToLen(f.v) ELSE U64ToLen(Atoi(f.s).v)

\* the request is an array whose first element is the name, in any case
Names(name) ==
    /\ request.t = "Array"
    /\ request.a # <<>>
    /\ IsStr(request.a[1])
    /\ LowerCase(request.a[1].s) = name

\* the SET the arguments spell: key, value, and nothing more, or EX and a
\* number of seconds, or PX and a number of milliseconds; None for any
\* other arguments
ExpectedSet(args) ==
    CASE Len(args) = 2 /\ IsStr(args[1]) /\ IsBytes(args[2]) ->
           Some(Command("Set", args[1].s, args[2].s, None, <<>>))
      [] /\ Len(args) = 4 /\ IsStr(args[1]) /\ IsBytes(args[2])
         /\ IsStr(args[3]) /\ args[3].s \in {StrEX, StrPX}
         /\ IsNum(args[4]) ->
           Some(Command("Set", args[1].s, args[2].s,
                        Some(U64FromNat(IF args[3].s = StrEX
                                        THEN 1000 * NumOf(args[4])
                                        ELSE NumOf(args[4]))),
                        <<>>))
      [] OTHER -> None

VariantOf(name) ==
    CASE name = StrGet -> "Get"
      [] name = StrSet -> "Set"
      [] name = StrPublish -> "Publish"
      [] name = StrSubscribe -> "Subscribe"
      [] name = StrUnsubscribe -> "Unsubscribe"
      [] OTHER -> "Unknown"

\* the number of array elements the parser of the variant has consumed for
\* the command it returned
Consumed(cmd) ==
    CASE cmd.c = "Get" -> 1
      [] cmd.c = "Publish" -> 2
      [] cmd.c = "Set" -> IF cmd.expire = None THEN 2 ELSE 4
      [] OTHER -> Len(cmd.channels)

\* C18: Command::from_frame matches the name of the first array element
\* case-insensitively (the name written in any case gives what the name in
\* lower case gives, and the variant is the one the name stands for) and,
\* for GET, SET, PUBLISH, SUBSCRIBE and UNSUBSCRIBE, fails with a protocol
\* error when an array element remains after the variant's parser has
\* consumed its arguments: a command is returned only for a frame it
\* accounts for entirely, and a GET, SET or PUBLISH that is accepted is
\* rejected with any one element more.  A frame that is no array is a
\* protocol error.
C18_NameAnyCaseNoTrailing ==
    command # None =>
        /\ request.t # "Array" => command[1].r = "Err"
        /\ (request.t = "Array" /\ request.a # <<>> /\ IsStr(request.a[1])) =>
               LET lower == Array(<<Bulk(LowerCase(request.a[1].s))>>
                                      \o Tail(request.a))
               IN  /\ command[1] = FromFrame(lower)
                   /\ command[1].r = "Ok" =>
                          command[1].cmd.c =
                              VariantOf(LowerCase(request.a[1].s))
        /\ (command[1].r = "Ok" /\ command[1].cmd.c # "Unknown") =>
               /\ Len(request.a) = 1 + Consumed(command[1].cmd)
               /\ command[1].rest = <<>>
               /\ command[1].cmd.c \in {"Get", "Set", "Publish"} =>
                      \A more \in ArgTokens :
                          FromFrame(Array(Append(request.a, more))).r = "Err"

\* "Get" k k has been rejected: one element remains after the key
C18_Witness ==
    /\ request = Array(<<Bulk(StrGetMixed), Bulk(KeyK), Bulk(KeyK)>>)
    /\ command # None
    /\ command[1].r = "Err"
    /\ GetParseFrames(Tail(request.a)).r = "Ok"
    /\ GetParseFrames(Tail(request.a)).rest # <<>>

(***************************************************************************)
(* Claims about one connection down to its bytes, checked under SpecConn.  *)
(***************************************************************************)
\* read_buf returned 0 in this step: read_frame leaves its loop from the read
StreamYieldsZero == rd.pc = "read" /\ rd'.pc \notin {"read", "parse"}

\* C22: when the stream yields zero bytes, read_frame returns the clean end
\* of the stream (no frame, no error) if the accumulation buffer is empty,
\* and an error if the buffer holds part of a frame; on the clean end of the
\* stream the handler returns without error, writing nothing more.
C22_EndOfStream ==
    [][/\ StreamYieldsZero =>
            /\ rd'.pc = IF rd.buffer = <<>> THEN "eof" ELSE "err"
            /\ rd'.buffer = rd.buffer
            /\ got' = got
       /\ (rd.pc = "eof" /\ handlers'[ConnPeer] # handlers[ConnPeer]) =>
            /\ handlers'[ConnPeer].pc = "done"
            /\ handlers'[ConnPeer].out = handlers[ConnPeer].out
       /\ (rd.pc = "err" /\ handlers'[ConnPeer] # handlers[ConnPeer]) =>
            handlers'[ConnPeer].pc = "error"
      ]_vars

\* C22 witness: the client sent GET k and closed; the handler answered, met
\* the end of the stream on an empty buffer and returned Ok
C22_Witness ==
    /\ sent = <<CmdFrame(<<StrGet, KeyK>>)>>
    /\ closed
    /\ rd = [buffer |-> <<>>, pc |-> "eof", partial |-> TRUE]
    /\ handlers[ConnPeer].pc = "done"
    /\ handlers[ConnPeer].out = <<Null>>

RECURSIVE WriterAfter(_, _)
\* the write half after write_frame of each frame of frames, on a Connection
\* in state st
WriterAfter(st, frames) ==
    IF frames = <<>> THEN st
    ELSE WriterAfter(WriteFrame(st, Head(frames)), Tail(frames))

\* the bytes that write_frame of each frame of frames puts on the socket
WireOf(frames) == WriterAfter(NewWriter, frames).wire

\* C23: when the buffer holds several frames, or a whole frame followed by
\* part of the next, each successful decode removes exactly the bytes of the
\* decoded frame and nothing else; read_frame returns the frames one at a
\* time in arrival order, none lost, none twice (the frames returned, the
\* buffer and the bytes in flight are together what the client wrote); a
\* decode attempt that reports Incomplete leaves the buffer unchanged.
C23_DecodeTakesOneFrame ==
    /\ [](/\ Len(got) <= Len(sent)
          /\ got = SubSeq(sent, 1, Len(got))
          /\ WireOf(got) \o rd.buffer \o wr.wire = WireOf(sent))
    /\ [][/\ got' # got =>
                /\ Len(got') = Len(got) + 1
                /\ rd.buffer = WireOf(<<got'[Len(got')]>>) \o rd'.buffer
          /\ (rd.pc = "parse" /\ rd'.pc = "read") =>
                /\ rd'.buffer = rd.buffer
                /\ got' = got
        ]_vars

\* C23 witness: the client wrote SUBSCRIBE a and GET k; read_frame has
\* returned the first from a buffer that also held part of the second, the
\* rest of which is still in flight
C23_Witness ==
    /\ sent = <<CmdFrame(<<StrSubscribe, ChanA>>), CmdFrame(<<StrGet, KeyK>>)>>
    /\ got = <<CmdFrame(<<StrSubscribe, ChanA>>)>>
    /\ rd.buffer # <<>>
    /\ wr.wire # <<>>
    /\ rd.buffer \o wr.wire = WireOf(<<CmdFrame(<<StrGet, KeyK>>)>>)

RECURSIVE ExpectedResponses(_, _, _)
\* the responses a connection owes to the requests cmds (of ConnFrames), on
\* an empty store: mode is "run" at the top level and "sub" inside the
\* SUBSCRIBE loop, joined whether channel a is joined
ExpectedResponses(cmds, mode, joined) ==
    IF cmds = <<>> THEN <<>>
    ELSE LET f == Head(cmds)
             unknown(name) == Error(StrErrUnknown \o name \o StrQuote)
         IN  CASE f = CmdFrame(<<StrSubscribe, ChanA>>) ->
                    <<MakeSubscribeFrame(ChanA, 1)>>
                        \o ExpectedResponses(Tail(cmds), "sub", TRUE)
               [] f = CmdFrame(<<StrGet, KeyK>>) ->
                    <<IF mode = "run" THEN Null ELSE unknown(StrGet)>>
                        \o ExpectedResponses(Tail(cmds), mode, joined)
               [] f = CmdFrame(<<StrPing>>) ->
                    <<unknown(StrPing)>>
                        \o ExpectedResponses(Tail(cmds), mode, joined)
               [] f = CmdFrame(<<StrUnsubscribe>>) ->
                    IF mode = "run" THEN <<>>
                    ELSE (IF joined THEN <<MakeUnsubscribeFrame(ChanA, 0)>>
                          ELSE <<>>)
                             \o ExpectedResponses(Tail(cmds), mode, FALSE)
               [] OTHER -> <<>>

\* the frames written to c that answer its requests (all but the messages)
ResponsesOf(c) ==
    SelectSeq(handlers[c].out, LAMBDA f : ~IsMessageFor(f, ChanA))

\* the requests the Handler of c has taken from read_frame
TakenBy(c) ==
    SubSeq(got, 1, IF handlers[c].ncmds < Len(got) THEN handlers[c].ncmds
                   ELSE Len(got))

\* C24: within one connection the commands are applied in arrival order,
\* one at a time, and their responses are written in that order: what has
\* been written answers the requests taken so far, in order (all of them
\* once the handler awaits the next frame, all but the one being applied
\* otherwise), and a frame is decoded only when the handler holds no request
\* and the response to every request before it has been written.
C24_OneCommandAtATime ==
    /\ [](LET taken == TakenBy(ConnPeer)
              applying == handlers[ConnPeer].pc
                              \in {"subscribe", "insert", "unsubscribe"}
          IN  /\ handlers[ConnPeer].ncmds <= Len(got) + 1
              /\ ResponsesOf(ConnPeer) =
                     ExpectedResponses(
                         IF applying THEN SubSeq(taken, 1, Len(taken) - 1)
                         ELSE taken, "run", FALSE))
    /\ [][/\ handlers'[ConnPeer].ncmds \in {handlers[ConnPeer].ncmds,
                                            handlers[ConnPeer].ncmds + 1}
          /\ got' # got =>
                /\ handlers[ConnPeer].pc \in {"run", "select"}
                /\ handlers[ConnPeer].ncmds = Len(got)
                /\ handlers[ConnPeer].channels = <<>>
                /\ handlers[ConnPeer].unsub = <<>>
                /\ ResponsesOf(ConnPeer) = ExpectedResponses(got, "run", FALSE)
        ]_vars

\* C24 witness: SUBSCRIBE a and UNSUBSCRIBE arrived in one read; the second
\* was decoded after the response to the first was written, and both are
\* answered in order
C24_Witness ==
    /\ got = <<CmdFrame(<<StrSubscribe, ChanA>>), CmdFrame(<<StrUnsubscribe>>)>>
    /\ ~rd.partial
    /\ handlers[ConnPeer].pc = "select"
    /\ handlers[ConnPeer].out =
           <<MakeSubscribeFrame(ChanA, 1), MakeUnsubscribeFrame(ChanA, 0)>>

(***************************************************************************)
(* Further claims about the server, checked under SpecServer and           *)
(* FairSpecServer.                                                         *)
(***************************************************************************)
\* the Handlers that exist: built by Listener::run and not yet dropped
HandlersHeld == Cardinality({c \in Conns : server.tasks[c] = "spawned"})

\* the permit Listener::run has taken (and forgotten) for the connection it
\* is waiting for in accept
ListenerHolds == IF server.listener \in {"accept", "sleep"} THEN 1 ELSE 0

\* Listener::run is running: it has not returned and has not been dropped
AcceptLoopRuns == server.listener \in {"acquire", "accept", "sleep"}

\* C25: every handler gives back exactly one permit when it terminates, on
\* every exit path (end of stream, shutdown, error), and then drops its
\* completion sender; permits are conserved: while the accept loop runs,
\* available permits + handlers + (1 if the listener holds a permit while
\* it waits in accept) = MAX_CONNECTIONS.
C25_PermitsConserved ==
    /\ [](AcceptLoopRuns =>
              server.permits + HandlersHeld + ListenerHolds = MAX_CONNECTIONS)
    /\ [][\A c \in Conns :
             /\ (server.tasks[c] = "spawned" /\ server'.tasks[c] # "spawned") =>
                    /\ HandlerEnded(handlers[c])
                    /\ server'.tasks[c] = "dropping"
                    /\ server'.permits = server.permits + 1
             /\ server.tasks[c] \in {"dropping", "gone"} =>
                    server'.tasks[c] \in {"dropping", "gone"}
             /\ server'.permits > server.permits =>
                    \E d \in Conns : server.tasks[d] = "spawned"
                                        /\ server'.tasks[d] = "dropping"
        ]_vars
    /\ \A c \in Conns :
           (server.tasks[c] = "spawned" /\ HandlerEnded(handlers[c]))
               ~> (server.tasks[c] = "gone")

\* C25 witness: the handler of c2 ended with an error (its request was no
\* array) and is gone, permit and sender released; the handler of c1 waits
\* for a frame; the listener holds the last permit in accept
C25_Witness ==
    /\ server.tasks["c2"] = "gone"
    /\ handlers["c2"].pc = "error"
    /\ server.tasks["c1"] = "spawned"
    /\ handlers["c1"].pc = "run"
    /\ server.listener = "accept"
    /\ server.permits = MAX_CONNECTIONS - 2

RECURSIVE PowerOfTwo(_)
\* 2^k
PowerOfTwo(k) == IF k = 0 THEN 1 ELSE 2 * PowerOfTwo(k - 1)

\* C26: within one call of Listener::accept a failed accept is retried after
\* waits of 1, 2, 4, ... time units (the wait of the sleep state is backoff:
\* 1 at the start of the call, doubled after each wait), and a failure is
\* fatal, ending the accept loop with the error, once backoff exceeds 64; a
\* successful accept returns the socket at once, and the next call starts
\* again at 1.
C26_AcceptBackoff ==
    /\ [](/\ server.listener = "accept" =>
               server.backoff \in {PowerOfTwo(k) : k \in 0..7}
          /\ server.listener = "sleep" =>
               server.backoff \in {PowerOfTwo(k) : k \in 0..6})
    /\ [][/\ (server.listener = "acquire" /\ server'.listener = "accept") =>
                server'.backoff = 1
          /\ (server.listener = "accept" /\ server'.listener = "sleep") =>
                /\ server.backoff <= 64
                /\ server'.backoff = server.backoff
          /\ (server.listener = "sleep" /\ server'.listener = "accept") =>
                server'.backoff = 2 * server.backoff
          /\ ListenerAcceptErr =>
                server'.listener = IF server.backoff > 64 THEN "failed"
                                   ELSE "sleep"
          /\ server'.listener = "failed" =>
                server.listener = "failed"
                    \/ (server.listener = "accept" /\ server.backoff = 128)
          /\ \A c \in Conns :
                ListenerAccept(c) =>
                    /\ server'.tasks[c] = "spawned"
                    /\ server'.listener = "acquire"
        ]_vars

\* C26 witness: a connection was accepted, and in the next call of accept
\* seven accepts have failed: the listener is in its last wait, of 64
C26_Witness ==
    /\ \E c \in Conns : server.tasks[c] = "spawned"
    /\ server.listener = "sleep"
    /\ server.backoff = 64

(***************************************************************************)
(* Claims about I/O failures, checked under SpecIo.                        *)
(***************************************************************************)
\* the handler of c takes the request frame, of a kind that is answered with
\* one response, on a connection whose writes fail
ResponseWriteFails(c, frame) ==
    /\ WriteFails(c)
    /\ FromFrame(frame).r = "Ok"
    /\ \/ /\ HandlerRun(c, frame)
          /\ FromFrame(frame).cmd.c \in {"Get", "Set", "Publish", "Unknown"}
       \/ /\ SelectFrame(c, frame)
          /\ FromFrame(frame).cmd.c \notin {"Subscribe", "Unsubscribe"}

\* a frame of the SUBSCRIBE loop (a subscribe or unsubscribe confirmation,
\* a message) is written on a connection whose writes fail
LoopWriteFails(c) ==
    /\ WriteFails(c)
    /\ \/ SubscribeInsert(c)
       \/ UnsubscribeChannel(c)
       \/ /\ \E i \in 1..Len(handlers[c].subs) : SelectMessage(c, i)
          /\ handlers'[c].pc # "panicked"

\* C29: an I/O failure on an established connection, a failed read or a
\* failed write of the response of any command (GET, SET, PUBLISH, an
\* unknown command, the frames of the SUBSCRIBE loop), ends the handler of
\* that connection with the error, and touches nothing else: not the
\* listener, not the store (but for the SET itself), not the handler of
\* another connection or what it has joined.
C29_IoFailureEndsHandlerOnly ==
    [][\A c \in IoConns :
          /\ \A frame \in IoFrames(c) :
                 ResponseWriteFails(c, frame) => handlers'[c].pc = "error"
          /\ LoopWriteFails(c) => handlers'[c].pc = "error"
          /\ HandlerReadErr(c) => handlers'[c].pc = "error"
          /\ (handlers[c].pc # "error" /\ handlers'[c].pc = "error") =>
                 /\ server' = server
                 /\ \A d \in Conns \ {c} : handlers'[d] = handlers[d]
                 /\ <<shutdown, background_task, sweeper, handles>>'
                        = <<shutdown, background_task, sweeper, handles>>
                 /\ entries' # entries =>
                        \E frame \in IoFrames(c) :
                            HandlerRun(c, frame) /\ FromFrame(frame).cmd.c = "Set"
                 /\ \A ch \in Channels :
                        /\ pub_sub'[ch] = None <=> pub_sub[ch] = None
                        /\ pub_sub[ch] # None =>
                               /\ pub_sub'[ch][1].log = pub_sub[ch][1].log
                               /\ pub_sub'[ch][1].rx_cnt = LiveReceivers(ch)'
      ]_vars

(***************************************************************************)
(* Claims about the select! of Subscribe::apply, checked under SpecConn.   *)
(***************************************************************************)
\* the messages ready for the Handler of c: the places of the log of each
\* channel it has joined that its receiver has still to read
ReadyFor(c) ==
    UNION {{<<handlers[c].subs[i].key, n>> :
                n \in (handlers[c].subs[i].next + 1)
                          ..Len(pub_sub[handlers[c].subs[i].key][1].log)} :
           i \in 1..Len(handlers[c].subs)}

\* the frame that delivers the ready message m
DeliveryOf(m) == MakeMessageFrame(m[1], pub_sub[m[1]][1].log[m[2]])

\* C30: each iteration of the SUBSCRIBE loop services exactly one ready
\* source, a channel message or a client frame, and loses nothing of the
\* other: when a message is serviced the read half (the buffer with the
\* bytes of a client frame read so far, the frames returned) is left as it
\* is, so that those bytes are decoded in a later iteration, and no frame is
\* taken; when a client frame is serviced no message is written, and a
\* message that was ready stays ready until it is delivered, as long as the
\* handler runs and does not leave the channel.
C30_SelectLosesNothing ==
    [][LET h == handlers[ConnPeer]
           n == handlers'[ConnPeer]
           gone == ReadyFor(ConnPeer) \ ReadyFor(ConnPeer)'
       IN  /\ (h.pc = "select" /\ n # h) =>
                 \/ /\ n.ncmds = h.ncmds
                    /\ <<rd, got, wr, sent, closed>>' = <<rd, got, wr, sent, closed>>
                    /\ \/ n.pc = "panicked"
                       \/ /\ n.pc = "select"
                          /\ \E m \in ReadyFor(ConnPeer) :
                                 /\ gone = {m}
                                 /\ n.out = Append(h.out, DeliveryOf(m))
                    /\ rd.pc \in {"parse", "read"}
                 \/ /\ n.ncmds = h.ncmds + 1
                    /\ Len(got) = n.ncmds \/ (n.pc \in {"done", "error"} /\ Len(got) = h.ncmds)
                    /\ gone = {} \/ HandlerEnded(n)
                    /\ \/ n.out = h.out
                       \/ /\ Len(n.out) = Len(h.out) + 1
                          /\ ~IsMessageFor(n.out[Len(n.out)], ChanA)
           /\ (~HandlerEnded(n) /\ h.pc # "unsubscribe") =>
                 \/ gone = {}
                 \/ /\ h.pc = "select"
                    /\ \E m \in gone : gone = {m} /\ n.out = Append(h.out, DeliveryOf(m))
      ]_vars

(***************************************************************************)
(* Claims about the decoder on any bytes, checked under SpecRaw.           *)
(***************************************************************************)
\* C31: the Incomplete signal never leaves read_frame as an error: whenever
\* Frame::check accepts the bytes of the buffer, Frame::parse on the same
\* bytes does not report Incomplete, and where it returns a frame it has
\* consumed exactly the span check verified; this for every byte sequence,
\* a "$-" line without CRLF within the 4 bytes check skips included.
C31_IncompleteStaysInside ==
    (rd.pc = "parse" /\ Check(rd.buffer, 0).r = "Ok") =>
        /\ Parse(rd.buffer, 0).r # "Incomplete"
        /\ Parse(rd.buffer, 0).r = "Ok" =>
               Parse(rd.buffer, 0).pos = Check(rd.buffer, 0).pos

(***************************************************************************)
(* Claims about the encoder, checked under SpecCodec.                      *)
(***************************************************************************)
\* the line write_frame owes for the number v after the type byte b: all its
\* decimal digits, then CRLF
DecimalLine(b, v) == <<b>> \o U64ToString(v) \o CRLF

\* C32: write_frame encodes every Integer value, bulk length and array
\* count of the u64 range as all its decimal digits followed by CRLF,
\* without failing and without truncation, whatever the number of digits,
\* up to the 20 of u64::MAX.
C32_DecimalsWrittenInFull ==
    Len(sent) = 1 =>
        LET frame == sent[1]
            enc == Encoded(frame)
        IN  /\ frame.t = "Integer" =>
                 /\ enc.ok
                 /\ enc.wire = DecimalLine(ByteColon, frame.v)
            /\ frame.t = "Bulk" =>
                 /\ enc.ok
                 /\ enc.wire = DecimalLine(ByteDollar, U64FromNat(Len(frame.s)))
                                   \o frame.s \o CRLF
            /\ (frame.t = "Array" /\ \A i \in 1..Len(frame.a) :
                                         frame.a[i].t # "Integer") =>
                 /\ enc.ok
                 /\ LET line == DecimalLine(ByteStar, U64FromNat(Len(frame.a)))
                    IN  SubSeq(enc.wire, 1, Len(line)) = line

(***************************************************************************)
(* Claims about the command encoder, checked under SpecEncode.             *)
(***************************************************************************)
\* C33: a Set encoded with Set::into_frame and decoded with
\* Command::from_frame is a Set with the same key, the same value and the
\* same expiry (none, or the same duration): a SET with expiry issued
\* through the encoder is stored with that expiry.
C33_SetRoundTrip ==
    command # None =>
        LET set == command[1]
        IN  /\ request # Null =>
                 /\ FromFrame(request).r = "Ok"
                 /\ FromFrame(request).cmd = set
            /\ handlers[ConnPeer].ncmds = 1 =>
                 /\ entries[set.key] # None
                 /\ entries[set.key][1].data = set.value
                 /\ entries[set.key][1].expires_at =
                        IF set.expire = None THEN None
                        ELSE Some(now + U64ToLen(set.expire[1]))

(***************************************************************************)
(* Further claims about the SUBSCRIBE loop, checked under SpecPubSub.      *)
(***************************************************************************)
\* the task of the handler is inside Subscribe::apply
InSubscribeLoop(h) == h.pc \in {"subscribe", "insert", "select", "unsubscribe"}

\* the frame is an unknown-command error
IsUnknownError(f) ==
    /\ f.t = "Error"
    /\ Len(f.s) > Len(StrErrUnknown)
    /\ SubSeq(f.s, 1, Len(StrErrUnknown)) = StrErrUnknown

\* C34: a connection that has entered the SUBSCRIBE loop never goes back to
\* the normal command mode: the loop goes on after the last channel is left
\* (no channel joined), GET, SET and PUBLISH are still answered with the
\* unknown-command error and not applied, and the loop ends only on
\* shutdown, on the end of the client's stream, or on an error.
C34_NoWayBackFromSubscribe ==
    [][\A c \in Conns :
          LET h == handlers[c]
              n == handlers'[c]
          IN  /\ InSubscribeLoop(h) => InSubscribeLoop(n) \/ HandlerEnded(n)
              /\ (h.pc = "unsubscribe" /\ ~WriteFails(c)) =>
                     n.pc \in {"unsubscribe", "select"}
              /\ \A frame \in ClientFrames(c) :
                     (/\ SelectFrame(c, frame)
                      /\ ~WriteFails(c)
                      /\ FromFrame(frame).r = "Ok"
                      /\ FromFrame(frame).cmd.c \in {"Get", "Set", "Publish"}) =>
                         /\ n.pc = "select"
                         /\ Len(n.out) = Len(h.out) + 1
                         /\ SubSeq(n.out, 1, Len(h.out)) = h.out
                         /\ IsUnknownError(n.out[Len(n.out)])
                         /\ <<entries, expirations, pub_sub>>'
                                = <<entries, expirations, pub_sub>>
              /\ (InSubscribeLoop(h) /\ HandlerEnded(n)) =>
                     /\ h.pc = "select" \/ WriteFails(c)
                     /\ n.pc = "done" => HandlerEof(c) \/ ~server.notify_shutdown
                     /\ n.pc = "error" =>
                            \/ HandlerReadErr(c)
                            \/ WriteFails(c)
                            \/ \E frame \in ClientFrames(c) :
                                   SelectFrame(c, frame) /\ FromFrame(frame).r = "Err"
                     /\ n.pc = "panicked" =>
                            \E i \in 1..Len(h.subs) :
                                Recv(pub_sub[h.subs[i].key][1], h.subs[i].next).r
                                    = "Lagged"
      ]_vars

\* C34 witness: c1 has subscribed to a, left every channel, and then sent
\* GET k: it is answered with the unknown-command error and the loop goes
\* on with no channel joined
C34_Witness ==
    /\ handlers["c1"].pc = "select"
    /\ handlers["c1"].subs = <<>>
    /\ handlers["c1"].ncmds = 3
    /\ handlers["c1"].out = <<MakeSubscribeFrame(ChanA, 1),
                              MakeUnsubscribeFrame(ChanA, 0),
                              UnknownResponse(StrGet)>>

\* the connections that hold channel ch in their map, each counted once
JoinedBy(ch) == {c \in Conns : StreamMapIndex(handlers[c].subs, ch) # 0}

\* a subscribe_to_channel is between db.subscribe and subscriptions.insert
\* for channel ch
SubscribeInFlight(ch) ==
    \E c \in Conns : handlers[c].rx # None /\ handlers[c].rx[1].key = ch

\* subscribe_to_channel of c inserts the stream of a channel c has joined
RepeatedSubscribe(c) ==
    /\ handlers[c].pc = "insert"
    /\ StreamMapIndex(handlers[c].subs, handlers[c].rx[1].key) # 0
    /\ handlers'[c] # handlers[c]

PlacesOf(out, kind, ch) == {i \in 1..Len(out) : IsKindFor(out[i], kind, ch)}

\* at place i of out the connection is inside a subscription to ch: a
\* subscribe frame for ch stands before i, and no unsubscribe frame for ch
\* stands between the last of them and i
Confirmed(out, i, ch) ==
    \E j \in PlacesOf(out, StrSubscribe, ch) :
        /\ j < i
        /\ \A k \in PlacesOf(out, StrUnsubscribe, ch) : k < j \/ k > i

\* C36: on a subscribing connection the ["subscribe", channel, count]
\* confirmation of a channel is written before any ["message", channel, ..]
\* frame of that channel, and after the ["unsubscribe", channel, ..]
\* response of a channel no message frame of that channel is written until
\* the channel is joined again: every message frame written stands inside a
\* subscription, and a message frame is written only for a channel the map
\* holds.
C36_MessagesOnlyBetweenConfirmations ==
    /\ [](\A c \in Conns : \A ch \in Channels :
             \A i \in PlacesOf(handlers[c].out, StrMessage, ch) :
                 Confirmed(handlers[c].out, i, ch))
    /\ [][\A c \in Conns : \A ch \in Channels :
             (/\ Len(handlers'[c].out) = Len(handlers[c].out) + 1
              /\ IsMessageFor(handlers'[c].out[Len(handlers'[c].out)], ch)) =>
                 /\ handlers[c].pc = "select"
                 /\ \E i \in 1..Len(handlers[c].subs) :
                        handlers[c].subs[i].key = ch
        ]_vars

\* C36 witness: c1 was sent the confirmation of a, then the message m; after
\* its unsubscribe response c3 published to a again (answered 0) and c1 was
\* sent nothing more
C36_Witness ==
    /\ handlers["c1"].pc = "select"
    /\ handlers["c1"].out = <<MakeSubscribeFrame(ChanA, 1),
                              MakeMessageFrame(ChanA, MsgM),
                              MakeUnsubscribeFrame(ChanA, 0)>>
    /\ Len(handlers["c3"].out) = 2
    /\ handlers["c3"].out[1] = Integer(U64FromNat(1))
    /\ handlers["c3"].out[2] = Integer(U64FromNat(0))


====
